---- MODULE Spec2Model ----
(***************************************************************************)
(* Session orchestration of the Catanatron UI:                             *)
(*   - the GameScreen bot effect / processBots loop (looping version),     *)
(*   - the useRollDisplay hook,                                            *)
(*   - the TradePanel component.                                           *)
(* React is modelled with run-to-completion steps: a promise continuation  *)
(* runs up to its next await in one step; a dispatch marks the effect's    *)
(* dependencies as changed and the passive effect (cleanup of the previous *)
(* run, then the body) runs in a later step.                               *)
(***************************************************************************)
EXTENDS Integers, Sequences, FiniteSets, TLC

\* ---------------------------------------------------------------- bounds
MaxIndex == 2          \* largest state_index the backend produces
MaxCycles == 2         \* processBots invocations in one behaviour
MaxEvents == 1         \* route changes, prop changes, teardowns and human actions
MaxLogLen == 3         \* longest action_records observed by useRollDisplay
MaxCount == 1          \* most cards of one resource held or requested in TradePanel
MaxStatLen == 5        \* longest action_records handed to calculateNegotiationStats
MaxAdvice == 2         \* most advice-request events of one session
MaxPosts == 3          \* postAction calls of the botActionInFlight GameScreen
MaxClock == 3          \* largest value Date.now() returns to upsertLocalRecord
\* the cap of the local record list: 100 in the source, scaled to the number
\* of sessions the model stores
MAX_RECORDS == 2

\* ------------------------------------------------------------- constants
HUMAN_BOT_DELAY_MS == 2500
ROBOT_THINKING_TIME == 3000
BOT_ACTION_DELAY == 2500

NULL == "null"
NoTimer == 0           \* botDelayTimeoutRef.current = null
NoGame == "undefined"
GameIds == {"g1"}
\* the sessions: one human against one bot, and a bot playing alone
Games == { [colors |-> {"RED", "BLUE"}, bot_colors |-> {"BLUE"}],
           [colors |-> {"BLUE"}, bot_colors |-> {"BLUE"}] }
Cycles == 1..MaxCycles
NoRoll == <<>>         \* a null RollValue
Rolls == {<<3, 4>>, <<1, 2>>}

VARIABLES
  \* GameScreen
  gameState,           \* state.gameState of the store (NoState before the first load)
  gameId,              \* useParams().gameId
  replayMode,          \* prop
  mounted,             \* FALSE once the component is torn down
  isUnmountedRef,
  isBotThinking,
  botDelayTimeoutRef,  \* NoTimer or the cycle whose wait() timer the ref holds
  botProcessingRef,
  depsChanged,         \* the bot effect's dependencies changed since its last run
  activeEffect,        \* cycle whose effect run registered the pending cleanup, 0 if none
  nCycles,             \* processBots invocations so far
  pc,                  \* per cycle: "idle" | "delay" | "awaiting" | "done"
  cancelled,           \* per cycle: the closure's `cancelled`
  nextState,           \* per cycle: the loop's `nextState`
  hasHuman,            \* per cycle: hasHumanPlayer captured by the effect closure
  timers,              \* cycles whose setTimeout is still scheduled
  trace,               \* per cycle: its submissions, responses and dispatches in order
  notifications,       \* state_index of every snapshot passed to dispatchSnackbar
  \* environment
  backend,             \* the session's snapshot held by the backend
  loads,               \* snapshots carried by unresolved getState responses
  humanInFlight,       \* a human-authored postAction(gameId, action) is unresolved
  nEvents,             \* route changes, prop changes, teardowns and human actions so far
  \* useRollDisplay
  rollGameState,       \* the gameState argument of the hook
  displayRoll,
  displayRollKey,
  overlayRoll,
  overlayKey,
  rollEffectPending,   \* the hook's effect dependencies changed since its last run
  lastOp,              \* the last thing that happened to the hook
  tracedKey,           \* the roll identity whose history is recorded, NULL for none
  tracedPromotions,    \* times finalizeOverlay moved tracedKey from queued to displayed
  tracedDropped,       \* tracedKey was overwritten in the queued slot before a finalize
  \* TradePanel
  tradeGameState,      \* state.gameState as TradePanel reads it
  playerColorOverride, \* prop
  offer,               \* draft: quantities offered
  request,             \* draft: quantities requested
  pendingAction,       \* NULL or the type of the action being submitted
  inFlight,            \* the action handed to actionExecutor and not yet answered
  clampPending,        \* availableCounts changed since the clamping effect last ran
  snackbar,            \* what the panel's last step enqueued: NULL, "state" or "error"
  \* RecordsPage
  recordsBackend,      \* ids of the sessions the backend holds
  localRecords,        \* ids of the records in local storage
  games,               \* ids of the records the page lists
  paramsGameId,        \* the :gameId route parameter, NULL when absent
  selectedGameId,
  recordGameState,     \* NULL or the id of the session whose snapshot is shown
  recordsError,        \* NULL, "list", "detail" or "delete"
  deletePending,
  deletePc,            \* handleDeleteSelectedGame: "idle", "deleting" or "listing"
  deleteTarget,        \* the selectedGameId the running handler closed over
  deleteStatus,        \* HTTP status of the last answer to deleteGame, 0 for none
  deleted,             \* ids whose deleteGame the backend answered with success
  listEffectPending,   \* loadGames changed identity since the effect last ran
  listPc,              \* the effect's loadGames: "idle" or "listing"
  listClosure,         \* paramsGameId and selectedGameId that loadGames closed over
  detailEffectPending, \* selectedGameId changed since fetchRecord last ran
  detailFlights,       \* ids whose getState(id, "latest") is unanswered
  \* negotiation statistics
  statsGameState,      \* the snapshot handed to calculateNegotiationStats
  adviceEvents,        \* the NEGOTIATION_ADVICE_REQUEST events of the session
  stats,               \* calculateNegotiationStats(statsGameState, adviceEvents)
  \* GameScreen with the botActionInFlight guard
  flightGameState,     \* state.gameState
  botActionInFlight,
  flightThinking,      \* isBotThinking of this GameScreen
  flightTimeoutRef,    \* botDelayTimeoutRef.current: NULL, "apply" or "finish"
  flightPc,            \* executeBotAction: "idle", "posting", "thinking" or "pausing"
  flightClosure,       \* the state.gameState the running effect closed over
  flightResult,        \* the snapshot applyResultWithPause will be called with
  flightBackend,       \* the session's snapshot held by the backend
  flightLoading,       \* the load effect's getState is unanswered
  flightEffectPending, \* a dependency of the bot effect changed since its last run
  flightUnmounted,     \* isUnmountedRef.current of this GameScreen
  nPosts,              \* postAction(gameId) calls issued so far
  rejectedHere,        \* postAction rejected and no different snapshot was stored since
  \* the local record list
  storage,             \* the parsed content of localStorage[STORAGE_KEY]
  lastUpsert           \* the record the most recent upsertLocalRecord call built

botVars == <<gameState, gameId, replayMode, mounted, isUnmountedRef, isBotThinking,
             botDelayTimeoutRef, botProcessingRef, depsChanged, activeEffect, nCycles,
             pc, cancelled, nextState, hasHuman, timers, trace, notifications,
             backend, loads, humanInFlight, nEvents>>

rollVars == <<rollGameState, displayRoll, displayRollKey, overlayRoll, overlayKey,
              rollEffectPending, lastOp, tracedKey, tracedPromotions, tracedDropped>>

tradeVars == <<tradeGameState, playerColorOverride, offer, request, pendingAction,
               inFlight, clampPending, snackbar>>

recordsVars == <<recordsBackend, localRecords, games, paramsGameId, selectedGameId,
                 recordGameState, recordsError, deletePending, deletePc,
                 deleteTarget, deleteStatus, deleted, listEffectPending, listPc,
                 listClosure, detailEffectPending, detailFlights>>

statsVars == <<statsGameState, adviceEvents, stats>>

flightVars == <<flightGameState, botActionInFlight, flightThinking, flightTimeoutRef,
                flightPc, flightClosure, flightResult, flightBackend, flightLoading,
                flightEffectPending, flightUnmounted, nPosts, rejectedHere>>

storeVars == <<storage, lastUpsert>>

pageVars == <<recordsVars, statsVars, flightVars, storeVars>>

vars == <<botVars, rollVars, tradeVars, pageVars>>

\* ------------------------------------------------------------- snapshots
Snapshot(i, cur, win, init, game) ==
  [state_index |-> i, current_color |-> cur, winning_color |-> win,
   is_initial_build_phase |-> init, colors |-> game.colors,
   bot_colors |-> game.bot_colors]

\* a null / absent GameState
NoState == Snapshot(-1, NULL, NULL, FALSE, [colors |-> {}, bot_colors |-> {}])

isBotTurn_IgnoreWinner(state) ==
  state.current_color \in state.bot_colors

isBotTurn(state) ==
  state.current_color \in state.bot_colors /\ state.winning_color = NULL

hasHumanPlayer(gs) ==
  IF gs = NoState THEN FALSE ELSE \E color \in gs.colors : color \notin gs.bot_colors

getHumanColor(gs) ==
  IF \E color \in gs.colors : color \notin gs.bot_colors
    THEN CHOOSE color \in gs.colors : color \notin gs.bot_colors
    ELSE NULL

\* Snapshots the backend may produce from b by executing one action.
NextSnapshots(b) ==
  { Snapshot(b.state_index + 1, cur, win, init, b) :
      cur \in b.colors, win \in {NULL, b.current_color},
      init \in (IF b.is_initial_build_phase THEN BOOLEAN ELSE {FALSE}) }

BackendAccepts == backend.winning_color = NULL /\ backend.state_index < MaxIndex

\* --------------------------------------------- the hook's mutable state
M == [gs |-> gameState, think |-> isBotThinking, ref |-> botDelayTimeoutRef,
      guard |-> botProcessingRef, dirty |-> depsChanged, active |-> activeEffect,
      n |-> nCycles, pc |-> pc, canc |-> cancelled, ns |-> nextState,
      hh |-> hasHuman, timers |-> timers, trace |-> trace, notes |-> notifications]

Install(m) ==
  /\ gameState' = m.gs
  /\ isBotThinking' = m.think
  /\ botDelayTimeoutRef' = m.ref
  /\ botProcessingRef' = m.guard
  /\ depsChanged' = m.dirty
  /\ activeEffect' = m.active
  /\ nCycles' = m.n
  /\ pc' = m.pc
  /\ cancelled' = m.canc
  /\ nextState' = m.ns
  /\ hasHuman' = m.hh
  /\ timers' = m.timers
  /\ trace' = m.trace
  /\ notifications' = m.notes

\* clearTimeout(botDelayTimeoutRef.current); botDelayTimeoutRef.current = null
ClearDelayTimeout(m) ==
  IF m.ref # NoTimer THEN [m EXCEPT !.timers = @ \ {m.ref}, !.ref = NoTimer] ELSE m

Finally_KeepGuard(m, c) ==
  [ClearDelayTimeout(m) EXCEPT !.think = FALSE, !.pc[c] = "done"]

\* finally block of processBots
Finally(m, c) ==
  [ClearDelayTimeout(m) EXCEPT !.think = FALSE, !.guard = FALSE, !.pc[c] = "done"]

\* const updatedState = await postAction(gameId): the request leaves
PostAction(m, c) ==
  [m EXCEPT !.pc[c] = "awaiting",
            !.trace[c] = Append(@, <<"post", m.ns[c].state_index>>)]

\* await wait(ms), followed by the submission when wait returns at once
Wait(m, c, ms) ==
  IF ms <= 0 \/ m.canc[c]
    THEN PostAction(m, c)
    ELSE [m EXCEPT !.ref = c, !.timers = @ \cup {c}, !.pc[c] = "delay"]

LoopHead_DelayInInitialPhase(m, c) ==
  IF ~m.canc[c] /\ isBotTurn(m.ns[c])
    THEN LET shouldDelayBeforeAction == m.hh[c]
             m1 == [m EXCEPT !.think = shouldDelayBeforeAction]
         IN  IF shouldDelayBeforeAction
               THEN Wait(m1, c, HUMAN_BOT_DELAY_MS)
               ELSE PostAction(m1, c)
    ELSE Finally(m, c)

\* head of the while loop up to the next await (or the finally block)
LoopHead(m, c) ==
  IF ~m.canc[c] /\ isBotTurn(m.ns[c])
    THEN LET shouldDelayBeforeAction == m.hh[c] /\ ~m.ns[c].is_initial_build_phase
             m1 == [m EXCEPT !.think = shouldDelayBeforeAction]
         IN  IF shouldDelayBeforeAction
               THEN Wait(m1, c, HUMAN_BOT_DELAY_MS)
               ELSE PostAction(m1, c)
    ELSE Finally(m, c)

Resume_NoCancelCheck(m, c, updatedState) ==
  LET m0 == [m EXCEPT !.trace[c] = Append(@, <<"resp", updatedState.state_index>>)]
      m1 == [m0 EXCEPT
               !.gs = updatedState,
               !.dirty = TRUE,
               !.trace[c] = Append(@, <<"disp", updatedState.state_index>>),
               !.notes = IF getHumanColor(updatedState) # NULL
                           THEN @ \cup {updatedState.state_index} ELSE @,
               !.ns[c] = updatedState]
  IN  LoopHead(m1, c)

Resume_DispatchStale(m, c, updatedState) ==
  LET m0 == [m EXCEPT !.trace[c] = Append(@, <<"resp", updatedState.state_index>>)]
  IN  IF m0.canc[c]
        THEN Finally(m0, c)
        ELSE LET m1 == [m0 EXCEPT
                          !.gs = m.ns[c],
                          !.dirty = TRUE,
                          !.trace[c] = Append(@, <<"disp", m.ns[c].state_index>>),
                          !.notes = IF getHumanColor(m.ns[c]) # NULL
                                      THEN @ \cup {m.ns[c].state_index} ELSE @,
                          !.ns[c] = updatedState]
             IN  LoopHead(m1, c)

\* continuation after postAction resolved with updatedState
Resume(m, c, updatedState) ==
  LET m0 == [m EXCEPT !.trace[c] = Append(@, <<"resp", updatedState.state_index>>)]
  IN  IF m0.canc[c]
        THEN Finally(m0, c)
        ELSE LET m1 == [m0 EXCEPT
                          !.gs = updatedState,
                          !.dirty = TRUE,
                          !.trace[c] = Append(@, <<"disp", updatedState.state_index>>),
                          !.notes = IF getHumanColor(updatedState) # NULL
                                      THEN @ \cup {updatedState.state_index} ELSE @,
                          !.ns[c] = updatedState]
             IN  LoopHead(m1, c)

Rejected_Retry(m, c) ==
  PostAction([m EXCEPT !.trace[c] = Append(@, <<"rej", 0>>)], c)

\* continuation after postAction rejected: catch, then finally
Rejected(m, c) ==
  Finally([m EXCEPT !.trace[c] = Append(@, <<"rej", 0>>)], c)

Cleanup_KeepTimer(m, c) ==
  LET m0 == [m EXCEPT !.canc[c] = TRUE,
                      !.trace[c] = IF m.pc[c] = "done" THEN @
                                   ELSE Append(@, <<"cancel", 0>>)]
  IN  [m0 EXCEPT !.think = FALSE, !.guard = FALSE]

\* cleanup returned by the bot effect
Cleanup(m, c) ==
  LET m0 == [m EXCEPT !.canc[c] = TRUE,
                      !.trace[c] = IF m.pc[c] = "done" THEN @
                                   ELSE Append(@, <<"cancel", 0>>)]
  IN  [ClearDelayTimeout(m0) EXCEPT !.think = FALSE, !.guard = FALSE]

\* body of the bot effect
BotEffect(m, gid, replay) ==
  IF m.gs = NoState \/ replay \/ gid = NoGame
    THEN [m EXCEPT !.think = FALSE, !.active = 0]
    ELSE IF ~isBotTurn(m.gs) \/ m.guard
      THEN [m EXCEPT !.active = 0]
      ELSE LET c == m.n + 1
               m1 == [m EXCEPT !.guard = TRUE, !.n = c, !.active = c]
               m2 == IF c \in Cycles
                       THEN [m1 EXCEPT !.canc[c] = FALSE, !.ns[c] = m.gs,
                                       !.hh[c] = hasHumanPlayer(m.gs)]
                       ELSE m1
           IN  IF c \in Cycles THEN LoopHead(m2, c) ELSE m2

\* React runs the previous cleanup, then the effect body
RunEffect(m, gid, replay) ==
  LET m1 == IF m.active # 0 THEN Cleanup(m, m.active) ELSE m
  IN  BotEffect([m1 EXCEPT !.dirty = FALSE], gid, replay)

\* ------------------------------------------------------------------ Init
InitSnapshots ==
  UNION { { Snapshot(0, cur, NULL, init, game) :
              cur \in game.colors, init \in BOOLEAN } : game \in Games }

BotInit ==
  /\ gameState = NoState
  /\ gameId = "g1"
  /\ replayMode = FALSE
  /\ mounted = TRUE
  /\ isUnmountedRef = FALSE
  /\ isBotThinking = FALSE
  /\ botDelayTimeoutRef = NoTimer
  /\ botProcessingRef = FALSE
  /\ depsChanged = FALSE
  /\ activeEffect = 0
  /\ nCycles = 0
  /\ pc = [c \in Cycles |-> "idle"]
  /\ cancelled = [c \in Cycles |-> FALSE]
  /\ nextState = [c \in Cycles |-> NoState]
  /\ hasHuman = [c \in Cycles |-> FALSE]
  /\ timers = {}
  /\ trace = [c \in Cycles |-> <<>>]
  /\ notifications = {}
  /\ backend \in InitSnapshots
  /\ loads = {backend}
  /\ humanInFlight = FALSE
  /\ nEvents = 0

envVars == <<backend, loads, humanInFlight>>
propVars == <<gameId, replayMode, mounted, isUnmountedRef, nEvents>>

\* --------------------------------------------------------------- actions
\* the bot effect runs after a render in which its dependencies changed
EffectRun ==
  /\ UNCHANGED <<rollVars, tradeVars, pageVars>>
  /\ mounted /\ depsChanged
  /\ LET m == RunEffect(M, gameId, replayMode)
     IN  m.n <= MaxCycles /\ Install(m)
  /\ UNCHANGED <<envVars, propVars>>

\* the thinking-delay timer of cycle c expires; the cycle submits
TimerFires(c) ==
  /\ UNCHANGED <<rollVars, tradeVars, pageVars>>
  /\ c \in timers
  /\ Install(PostAction([M EXCEPT !.timers = @ \ {c}, !.ref = NoTimer], c))
  /\ UNCHANGED <<envVars, propVars>>

\* the backend executes the automated move and the response reaches cycle c
PostActionResolves(c) ==
  /\ UNCHANGED <<rollVars, tradeVars, pageVars>>
  /\ pc[c] = "awaiting"
  /\ BackendAccepts
  /\ \E s \in NextSnapshots(backend) :
       /\ backend' = s
       /\ Install(Resume(M, c, s))
  /\ UNCHANGED <<loads, humanInFlight, propVars>>

PostActionRejects(c) ==
  /\ UNCHANGED <<rollVars, tradeVars, pageVars>>
  /\ pc[c] = "awaiting"
  /\ Install(Rejected(M, c))
  /\ UNCHANGED <<envVars, propVars>>

\* initial-load path: a getState response is dispatched to the store
LoadResolves ==
  /\ UNCHANGED <<rollVars, tradeVars, pageVars>>
  /\ \E s \in loads :
       /\ loads' = loads \ {s}
       /\ Install([M EXCEPT !.gs = s, !.dirty = TRUE])
  /\ UNCHANGED <<backend, humanInFlight, propVars>>

\* the stateIndex route parameter changes: the load effect fetches again
RouteChange ==
  /\ UNCHANGED <<rollVars, tradeVars, pageVars>>
  /\ mounted /\ gameId # NoGame /\ nEvents < MaxEvents
  /\ loads' = loads \cup {backend}
  /\ nEvents' = nEvents + 1
  /\ UNCHANGED <<backend, humanInFlight, gameId, replayMode, mounted, isUnmountedRef>>
  /\ Install(M)

\* replayMode toggles: render, cleanup and effect body
ToggleReplayMode ==
  /\ UNCHANGED <<rollVars, tradeVars, pageVars>>
  /\ mounted /\ nEvents < MaxEvents
  /\ replayMode' = ~replayMode
  /\ nEvents' = nEvents + 1
  /\ LET m == RunEffect(M, gameId, ~replayMode)
     IN  m.n <= MaxCycles /\ Install(m)
  /\ UNCHANGED <<envVars, gameId, mounted, isUnmountedRef>>

\* the gameId route parameter changes (session-identity change): both the
\* load effect and the bot effect run again
ChangeGameId ==
  /\ UNCHANGED <<rollVars, tradeVars, pageVars>>
  /\ mounted /\ nEvents < MaxEvents
  /\ \E gid \in (GameIds \cup {NoGame}) \ {gameId} :
       /\ gameId' = gid
       /\ loads' = IF gid # NoGame THEN loads \cup {backend} ELSE loads
       /\ LET m == RunEffect(M, gid, replayMode)
          IN  m.n <= MaxCycles /\ Install(m)
  /\ nEvents' = nEvents + 1
  /\ UNCHANGED <<backend, humanInFlight, replayMode, mounted, isUnmountedRef>>

\* view teardown: every effect's cleanup runs
Unmount ==
  /\ UNCHANGED <<rollVars, tradeVars, pageVars>>
  /\ mounted /\ nEvents < MaxEvents
  /\ mounted' = FALSE
  /\ nEvents' = nEvents + 1
  /\ isUnmountedRef' = TRUE
  /\ LET m1 == IF activeEffect # 0 THEN Cleanup(M, activeEffect) ELSE M
     IN  Install([ClearDelayTimeout(m1) EXCEPT !.active = 0])
  /\ UNCHANGED <<envVars, gameId, replayMode>>

\* the human submits an action through executePlayerAction
HumanSubmits ==
  /\ UNCHANGED <<rollVars, tradeVars, pageVars>>
  /\ mounted /\ ~humanInFlight /\ gameId # NoGame /\ nEvents < MaxEvents
  /\ gameState # NoState
  /\ gameState.current_color \notin gameState.bot_colors
  /\ humanInFlight' = TRUE
  /\ nEvents' = nEvents + 1
  /\ UNCHANGED <<backend, loads, gameId, replayMode, mounted, isUnmountedRef>>
  /\ Install(M)

HumanResolves ==
  /\ UNCHANGED <<rollVars, tradeVars, pageVars>>
  /\ humanInFlight
  /\ humanInFlight' = FALSE
  /\ \/ /\ BackendAccepts
        /\ \E s \in NextSnapshots(backend) :
             /\ backend' = s
             /\ Install([M EXCEPT !.gs = s, !.dirty = TRUE, !.notes = @ \cup {s.state_index}])
     \/ /\ UNCHANGED backend
        /\ Install(M)
  /\ UNCHANGED <<loads, propVars>>

Next ==
  \/ EffectRun
  \/ \E c \in Cycles : TimerFires(c)
  \/ \E c \in Cycles : PostActionResolves(c)
  \/ \E c \in Cycles : PostActionRejects(c)
  \/ LoadResolves
  \/ RouteChange
  \/ ToggleReplayMode
  \/ ChangeGameId
  \/ Unmount
  \/ HumanSubmits
  \/ HumanResolves

\* ======================================================== useRollDisplay
\* action_records entries: <<action type, result>>
ActionRecords ==
  { <<"ROLL", r>> : r \in Rolls } \cup { <<"END_TURN", NoRoll>> }

RECURSIVE LogsOfLen(_)
LogsOfLen(n) ==
  IF n = 0 THEN {<<>>}
  ELSE { Append(l, r) : l \in LogsOfLen(n - 1), r \in ActionRecords }

Logs == UNION { LogsOfLen(n) : n \in 0..MaxLogLen }

NoGameState == [present |-> FALSE, action_records |-> <<>>]
GameStates == { [present |-> TRUE, action_records |-> l] : l \in Logs }

RollKey_ValueOnly(roll, i) ==
  ToString(roll[1]) \o "-" \o ToString(roll[2])

\* `${roll[0]}-${roll[1]}-${i}` with the 0-based index i
RollKey(roll, i) ==
  ToString(roll[1]) \o "-" \o ToString(roll[2]) \o "-" \o ToString(i)

\* the for loop of extractLatestRoll, i being the 1-based position
RECURSIVE ScanForRoll(_, _)
ScanForRoll(records, i) ==
  IF i < 1 THEN [roll |-> NoRoll, key |-> NULL]
  ELSE IF records[i][1] = "ROLL"
    THEN [roll |-> records[i][2], key |-> RollKey(records[i][2], i - 1)]
    ELSE ScanForRoll(records, i - 1)

extractLatestRoll_First(gs) ==
  LET rolls == { i \in 1..Len(gs.action_records) : gs.action_records[i][1] = "ROLL" }
  IN IF ~gs.present \/ rolls = {} THEN [roll |-> NoRoll, key |-> NULL]
     ELSE LET i == CHOOSE k \in rolls : \A j \in rolls : k <= j
          IN [roll |-> gs.action_records[i][2],
              key |-> RollKey(gs.action_records[i][2], i - 1)]

extractLatestRoll(gs) ==
  IF ~gs.present THEN [roll |-> NoRoll, key |-> NULL]
  ELSE ScanForRoll(gs.action_records, Len(gs.action_records))

R == [displayRoll |-> displayRoll, displayRollKey |-> displayRollKey,
      overlayRoll |-> overlayRoll, overlayKey |-> overlayKey]

InstallRoll(r) ==
  /\ displayRoll' = r.displayRoll
  /\ displayRollKey' = r.displayRollKey
  /\ overlayRoll' = r.overlayRoll
  /\ overlayKey' = r.overlayKey
  /\ rollEffectPending' =
       (rollGameState' # rollGameState
        \/ r.displayRollKey # displayRollKey \/ r.overlayKey # overlayKey)

rollEffect_QueueDisplayed(r, gs) ==
  LET latest == extractLatestRoll(gs)
  IN  IF latest.roll = NoRoll \/ latest.key = NULL
        THEN IF ~gs.present
               THEN [displayRoll |-> NoRoll, displayRollKey |-> NULL,
                     overlayRoll |-> NoRoll, overlayKey |-> NULL]
               ELSE r
        ELSE IF r.displayRollKey = NULL /\ r.overlayKey = NULL
          THEN [r EXCEPT !.displayRoll = latest.roll, !.displayRollKey = latest.key]
          ELSE IF latest.key # r.overlayKey
            THEN [r EXCEPT !.overlayRoll = latest.roll, !.overlayKey = latest.key]
            ELSE r

rollEffect_KeepQueued(r, gs) ==
  LET latest == extractLatestRoll(gs)
  IN  IF latest.roll = NoRoll \/ latest.key = NULL
        THEN IF ~gs.present
               THEN [r EXCEPT !.displayRoll = NoRoll, !.displayRollKey = NULL]
               ELSE r
        ELSE IF r.displayRollKey = NULL /\ r.overlayKey = NULL
          THEN [r EXCEPT !.displayRoll = latest.roll, !.displayRollKey = latest.key]
          ELSE IF latest.key # r.displayRollKey /\ latest.key # r.overlayKey
            THEN [r EXCEPT !.overlayRoll = latest.roll, !.overlayKey = latest.key]
            ELSE r

\* body of the hook's effect
rollEffect(r, gs) ==
  LET latest == extractLatestRoll(gs)
  IN  IF latest.roll = NoRoll \/ latest.key = NULL
        THEN IF ~gs.present
               THEN [displayRoll |-> NoRoll, displayRollKey |-> NULL,
                     overlayRoll |-> NoRoll, overlayKey |-> NULL]
               ELSE r
        ELSE IF r.displayRollKey = NULL /\ r.overlayKey = NULL
          THEN [r EXCEPT !.displayRoll = latest.roll, !.displayRollKey = latest.key]
          ELSE IF latest.key # r.displayRollKey /\ latest.key # r.overlayKey
            THEN [r EXCEPT !.overlayRoll = latest.roll, !.overlayKey = latest.key]
            ELSE r

finalizeOverlay_NoGuard(r) ==
  [r EXCEPT !.displayRoll = r.overlayRoll, !.displayRollKey = r.overlayKey,
            !.overlayRoll = NoRoll, !.overlayKey = NULL]

finalizeOverlay(r) ==
  LET r1 == IF r.overlayKey # NULL /\ r.overlayRoll # NoRoll
              THEN [r EXCEPT !.displayRoll = r.overlayRoll,
                             !.displayRollKey = r.overlayKey]
              ELSE r
  IN  [r1 EXCEPT !.overlayRoll = NoRoll, !.overlayKey = NULL]

\* every roll identity a log of the bounded length can hold
Keys == { RollKey(r, i) : r \in Rolls, i \in 0..(MaxLogLen - 1) }

\* useState(null) four times, before the first snapshot
HookInit ==
  /\ rollGameState = NoGameState
  /\ displayRoll = NoRoll
  /\ displayRollKey = NULL
  /\ overlayRoll = NoRoll
  /\ overlayKey = NULL
  /\ rollEffectPending = FALSE
  /\ lastOp = "mount"
  /\ tracedPromotions = 0
  /\ tracedDropped = FALSE

RollInit == HookInit /\ tracedKey = NULL

\* the hook is rendered with another snapshot
Observe ==
  /\ UNCHANGED <<botVars, tradeVars, pageVars>>
  /\ \E gs \in GameStates \cup {NoGameState} :
       /\ rollGameState' = gs
  /\ rollEffectPending' = TRUE
  /\ lastOp' = "observe"
  /\ UNCHANGED <<displayRoll, displayRollKey, overlayRoll, overlayKey>>
  /\ UNCHANGED <<tracedKey, tracedPromotions, tracedDropped>>

\* the effect runs after a render in which its dependencies changed
RollEffectRuns ==
  /\ UNCHANGED <<botVars, tradeVars, pageVars>>
  /\ rollEffectPending
  /\ UNCHANGED rollGameState
  /\ InstallRoll(rollEffect(R, rollGameState))
  /\ lastOp' = "effect"
  /\ tracedDropped' =
       (tracedDropped
        \/ (tracedKey # NULL /\ overlayKey = tracedKey
            /\ overlayKey' \notin {NULL, overlayKey}))
  /\ UNCHANGED <<tracedKey, tracedPromotions>>

\* RollingDiceOverlay calls onComplete
FinalizeOverlay ==
  /\ UNCHANGED <<botVars, tradeVars, pageVars>>
  /\ UNCHANGED rollGameState
  /\ displayRoll' = finalizeOverlay(R).displayRoll
  /\ displayRollKey' = finalizeOverlay(R).displayRollKey
  /\ overlayRoll' = finalizeOverlay(R).overlayRoll
  /\ overlayKey' = finalizeOverlay(R).overlayKey
  /\ rollEffectPending' =
       (rollEffectPending \/ displayRollKey' # displayRollKey \/ overlayKey' # overlayKey)
  /\ lastOp' = "finalize"
  /\ tracedPromotions' =
       IF tracedKey # NULL /\ overlayKey = tracedKey /\ displayRollKey' = tracedKey
            /\ tracedPromotions < 2
         THEN tracedPromotions + 1
         ELSE tracedPromotions
  /\ UNCHANGED <<tracedKey, tracedDropped>>

RollSpecNext ==
  \/ Observe
  \/ RollEffectRuns
  \/ FinalizeOverlay

\* ============================================================ TradePanel
\* two of the five resource kinds of RESOURCE_ORDER are kept
RESOURCE_ORDER == <<"WOOD", "BRICK">>
ResourceIndex == 1..Len(RESOURCE_ORDER)
Counts == [ResourceIndex -> 0..MaxCount]
createEmptyCounts == [i \in ResourceIndex |-> 0]
TradeColors == {"RED", "BLUE", "WHITE"}
NoTrade == [offerer_color |-> NULL, acceptees |-> {}]   \* gameState.trade = null
NoAction == [type |-> NULL, target |-> NULL]           \* undefined

RECURSIVE SumUpTo(_, _)
SumUpTo(counts, n) == IF n = 0 THEN 0 ELSE counts[n] + SumUpTo(counts, n - 1)
\* counts.reduce((sum, count) => sum + count, 0)
Total(counts) == SumUpTo(counts, Len(counts))

Min(a, b) == IF a < b THEN a ELSE b
Max(a, b) == IF a > b THEN a ELSE b

\* trade.acceptees: at most one entry per color; the offerer's own entry,
\* when the list has one, is not an acceptance
AccepteeLists(offerer) ==
  { l \in SUBSET [color : TradeColors, accepted : BOOLEAN] :
      /\ \A a, b \in l : a.color = b.color => a = b
      /\ \A a \in l : a.color = offerer => ~a.accepted }

Trades ==
  UNION { { [offerer_color |-> o, acceptees |-> l] : l \in AccepteeLists(o) } :
            o \in {"RED", "BLUE"} }

\* current_playable_actions, which belong to current_color: answers to an
\* offer, or confirmations, which only the offerer of the open trade is given
PlayableActions(cur, trade) ==
  LET answers == SUBSET { [type |-> t, target |-> NULL] :
                            t \in {"ACCEPT_TRADE", "REJECT_TRADE"} }
      confirms == IF trade # NoTrade /\ cur = trade.offerer_color
                    THEN SUBSET { [type |-> "CONFIRM_TRADE", target |-> c] :
                                    c \in TradeColors \ {cur} }
                    ELSE {{}}
  IN  answers \cup confirms

TradeSnapshot(cur, prompt, win, rolled, hand, trade, playable) ==
  [current_color |-> cur, current_prompt |-> prompt, winning_color |-> win,
   HAS_ROLLED |-> rolled, IN_HAND |-> hand, trade |-> trade,
   current_playable_actions |-> playable,
   colors |-> TradeColors, bot_colors |-> {"BLUE", "WHITE"}]

\* snapshots in which the negotiation varies
DecisionSnapshots ==
  UNION { UNION { { TradeSnapshot(cur, prompt, NULL, TRUE, createEmptyCounts,
                                  trade, playable) :
                      prompt \in {"DECIDE_TRADE", "DECIDE_ACCEPTEES"},
                      playable \in PlayableActions(cur, trade) } :
                  trade \in Trades \cup {NoTrade} } :
          cur \in {"RED", "BLUE"} }

\* snapshots in which the turn and the viewer's hand vary
ProposalSnapshots ==
  { TradeSnapshot(cur, prompt, win, rolled, hand, trade, {}) :
      cur \in {"RED", "BLUE"}, prompt \in {"PLAY_TURN", "MOVE_ROBBER"},
      win \in {NULL, "BLUE"}, rolled \in BOOLEAN, hand \in Counts,
      trade \in { NoTrade } \cup
                { [offerer_color |-> o, acceptees |-> {}] : o \in {"RED", "BLUE"} } }

\* ---- what one render of the panel computes
humanColor ==
  IF playerColorOverride # NULL THEN playerColorOverride
  ELSE getHumanColor(tradeGameState)

\* player_state is kept for the viewer: `${key}_${resource}_IN_HAND`
availableCounts == tradeGameState.IN_HAND

hasRolled == tradeGameState.HAS_ROLLED

isPlayersTurn_AnyPrompt ==
  tradeGameState.current_color = humanColor

isPlayersTurn ==
  /\ tradeGameState.current_color = humanColor
  /\ tradeGameState.current_prompt = "PLAY_TURN"

tradeActive == tradeGameState.trade # NoTrade
gameFinished == tradeGameState.winning_color # NULL
offerTotal == Total(offer)
requestTotal == Total(request)

validationError_NoOverlap ==
  IF \E i \in ResourceIndex : offer[i] > availableCounts[i] THEN "insufficient"
  ELSE IF offerTotal = 0 THEN "noOffer"
  ELSE IF requestTotal = 0 THEN "noRequest"
  ELSE NULL

validationError ==
  IF \E i \in ResourceIndex : offer[i] > availableCounts[i] THEN "insufficient"
  ELSE IF \E i \in ResourceIndex : offer[i] > 0 /\ request[i] > 0 THEN "overlap"
  ELSE IF offerTotal = 0 THEN "noOffer"
  ELSE IF requestTotal = 0 THEN "noRequest"
  ELSE NULL

awaitingResponse_AnyActor ==
  tradeGameState.current_prompt = "DECIDE_TRADE"

awaitingResponse ==
  /\ tradeGameState.current_prompt = "DECIDE_TRADE"
  /\ tradeGameState.current_color = humanColor

decidingPartner ==
  /\ tradeGameState.current_prompt = "DECIDE_ACCEPTEES"
  /\ tradeGameState.current_color = humanColor

\* current_playable_actions.find(action => action[1] === type)
FindAction(type) ==
  IF \E a \in tradeGameState.current_playable_actions : a.type = type
    THEN CHOOSE a \in tradeGameState.current_playable_actions : a.type = type
    ELSE NoAction

acceptAction == IF awaitingResponse THEN FindAction("ACCEPT_TRADE") ELSE NoAction
rejectAction == IF awaitingResponse THEN FindAction("REJECT_TRADE") ELSE NoAction

confirmActions_First ==
  IF decidingPartner
       /\ \E a \in tradeGameState.current_playable_actions : a.type = "CONFIRM_TRADE"
    THEN {FindAction("CONFIRM_TRADE")}
    ELSE {}

confirmActions ==
  IF decidingPartner
    THEN { a \in tradeGameState.current_playable_actions : a.type = "CONFIRM_TRADE" }
    ELSE {}

currentTrade == tradeGameState.trade

isTradeOfferer ==
  IF currentTrade # NoTrade /\ humanColor # NULL
    THEN currentTrade.offerer_color = humanColor
    ELSE FALSE

canProposeTrade_IgnoreRoll ==
  isPlayersTurn /\ ~gameFinished /\ (~tradeActive \/ isTradeOfferer)

canProposeTrade ==
  isPlayersTurn /\ hasRolled /\ ~gameFinished /\ (~tradeActive \/ isTradeOfferer)

canSubmitProposal ==
  /\ canProposeTrade
  /\ validationError = NULL
  /\ pendingAction = NULL
  /\ offerTotal > 0
  /\ requestTotal > 0

withdrawAction_AnyViewer ==
  IF tradeActive /\ humanColor # NULL
    THEN [type |-> "CANCEL_TRADE", target |-> NULL]
    ELSE NoAction

withdrawAction ==
  IF tradeActive /\ isTradeOfferer /\ humanColor # NULL
    THEN [type |-> "CANCEL_TRADE", target |-> NULL]
    ELSE NoAction

acceptedColors == { a.color : a \in { b \in currentTrade.acceptees : b.accepted } }

hasRejectedPlayers_UnlessAccepted ==
  IF decidingPartner /\ currentTrade # NoTrade
    THEN /\ acceptedColors = {}
         /\ \E a \in currentTrade.acceptees :
              ~a.accepted /\ a.color # currentTrade.offerer_color
    ELSE FALSE

hasRejectedPlayers ==
  IF decidingPartner /\ currentTrade # NoTrade
    THEN \E a \in currentTrade.acceptees :
           ~a.accepted /\ a.color # currentTrade.offerer_color
    ELSE FALSE

\* ---- what the panel renders (the early returns render no button at all)
PanelShown == humanColor # NULL

\* the accept / reject block
ResponseShown ==
  /\ PanelShown
  /\ awaitingResponse /\ ~isTradeOfferer
  /\ (acceptAction # NoAction \/ rejectAction # NoAction)

AcceptEnabled == ResponseShown /\ acceptAction # NoAction /\ pendingAction = NULL
RejectEnabled == ResponseShown /\ rejectAction # NoAction /\ pendingAction = NULL

\* targets of the confirm buttons, action[2][10]
ConfirmTargets ==
  IF PanelShown /\ decidingPartner THEN { a.target : a \in confirmActions } ELSE {}

ConfirmEnabled == pendingAction = NULL /\ ~hasRejectedPlayers

\* number of withdraw buttons: one in the deciding block, one in the block of
\* its own
WithdrawButtons ==
  (IF PanelShown /\ decidingPartner /\ withdrawAction # NoAction THEN 1 ELSE 0)
  + (IF PanelShown /\ withdrawAction # NoAction /\ ~decidingPartner THEN 1 ELSE 0)

WithdrawEnabled_WhilePending == WithdrawButtons > 0

WithdrawEnabled == WithdrawButtons > 0 /\ pendingAction = NULL

ProposeEnabled == PanelShown /\ canSubmitProposal

\* ---- the panel's handlers
NoFlight == [type |-> NULL, target |-> NULL, payload |-> <<>>, resetForm |-> FALSE]

P == [gs |-> tradeGameState, offer |-> offer, request |-> request,
      pendingAction |-> pendingAction, inFlight |-> inFlight,
      clampPending |-> clampPending, snackbar |-> NULL]

InstallPanel(p) ==
  /\ tradeGameState' = p.gs
  /\ offer' = p.offer
  /\ request' = p.request
  /\ pendingAction' = p.pendingAction
  /\ inFlight' = p.inFlight
  /\ clampPending' = p.clampPending
  /\ snackbar' = p.snackbar
  /\ UNCHANGED playerColorOverride

\* handleAdjust: Math.max(0, Math.min(upperBound, next[index] + delta))
Adjust(counts, index, delta, upperBound) ==
  [counts EXCEPT ![index] = Max(0, Min(upperBound, @ + delta))]

\* submitAction up to the await
Submit(p, action, payload, resetForm) ==
  [p EXCEPT !.pendingAction = action.type,
            !.inFlight = [type |-> action.type, target |-> action.target,
                          payload |-> payload, resetForm |-> resetForm]]

\* submitAction after actionExecutor resolved
Resolved(p, updatedState) ==
  LET p1 == [p EXCEPT !.gs = updatedState, !.snackbar = "state",
                      !.clampPending = TRUE]
      p2 == IF p.inFlight.resetForm
              THEN [p1 EXCEPT !.offer = createEmptyCounts,
                              !.request = createEmptyCounts]
              ELSE p1
  IN  [p2 EXCEPT !.pendingAction = NULL, !.inFlight = NoFlight]

Failed_ResetForm(p) ==
  [p EXCEPT !.snackbar = "error", !.pendingAction = NULL, !.inFlight = NoFlight,
            !.offer = createEmptyCounts, !.request = createEmptyCounts]

\* submitAction after actionExecutor rejected: catch, then finally
Failed(p) ==
  [p EXCEPT !.snackbar = "error", !.pendingAction = NULL, !.inFlight = NoFlight]

\* the effect on availableCounts
ClampEffect(p) ==
  [p EXCEPT !.offer = [i \in ResourceIndex |-> Min(p.offer[i], p.gs.IN_HAND[i])],
            !.clampPending = FALSE]

\* the panel is mounted on snapshot gs
TradeMount(gs, override) ==
  /\ tradeGameState = gs
  /\ playerColorOverride = override
  /\ offer = createEmptyCounts
  /\ request = createEmptyCounts
  /\ pendingAction = NULL
  /\ inFlight = NoFlight
  /\ clampPending = FALSE
  /\ snackbar = NULL

\* a panel nobody touches
TradeIdle ==
  TradeMount(TradeSnapshot("BLUE", "PLAY_TURN", NULL, FALSE, createEmptyCounts,
                           NoTrade, {}), NULL)

\* mounted while a negotiation is going on
TradeInit ==
  \E gs \in DecisionSnapshots, override \in {NULL, "BLUE"} : TradeMount(gs, override)

\* mounted while the viewer may draft an offer
DraftInit ==
  \E gs \in ProposalSnapshots : TradeMount(gs, NULL)

IncrementOffer(i) ==
  /\ UNCHANGED <<botVars, rollVars, pageVars>>
  /\ PanelShown /\ offer[i] < availableCounts[i]
  /\ InstallPanel([P EXCEPT !.offer = Adjust(offer, i, 1, availableCounts[i])])

DecrementOffer(i) ==
  /\ UNCHANGED <<botVars, rollVars, pageVars>>
  /\ PanelShown
  /\ InstallPanel([P EXCEPT !.offer = Adjust(offer, i, -1, MaxCount)])

\* the code sets no limit on a request; the model stops at MaxCount
IncrementRequest(i) ==
  /\ UNCHANGED <<botVars, rollVars, pageVars>>
  /\ PanelShown /\ request[i] < MaxCount
  /\ InstallPanel([P EXCEPT !.request = Adjust(request, i, 1, MaxCount)])

DecrementRequest(i) ==
  /\ UNCHANGED <<botVars, rollVars, pageVars>>
  /\ PanelShown
  /\ InstallPanel([P EXCEPT !.request = Adjust(request, i, -1, MaxCount)])

ResetForm ==
  /\ UNCHANGED <<botVars, rollVars, pageVars>>
  /\ PanelShown /\ pendingAction = NULL /\ (offerTotal # 0 \/ requestTotal # 0)
  /\ InstallPanel([P EXCEPT !.offer = createEmptyCounts,
                            !.request = createEmptyCounts])

handleProposeTrade ==
  /\ UNCHANGED <<botVars, rollVars, pageVars>>
  /\ ProposeEnabled
  /\ InstallPanel(Submit(P, [type |-> "OFFER_TRADE", target |-> NULL],
                         offer \o request, TRUE))

AcceptTrade ==
  /\ UNCHANGED <<botVars, rollVars, pageVars>>
  /\ AcceptEnabled
  /\ InstallPanel(Submit(P, acceptAction, <<>>, FALSE))

RejectTrade ==
  /\ UNCHANGED <<botVars, rollVars, pageVars>>
  /\ RejectEnabled
  /\ InstallPanel(Submit(P, rejectAction, <<>>, FALSE))

ConfirmTrade(target) ==
  /\ UNCHANGED <<botVars, rollVars, pageVars>>
  /\ target \in ConfirmTargets /\ ConfirmEnabled
  /\ InstallPanel(Submit(P, [type |-> "CONFIRM_TRADE", target |-> target],
                         <<>>, FALSE))

WithdrawTrade ==
  /\ UNCHANGED <<botVars, rollVars, pageVars>>
  /\ WithdrawEnabled
  /\ InstallPanel(Submit(P, withdrawAction, <<>>, FALSE))

\* actionExecutor resolves with the backend's next snapshot, one of snapshots
SubmitResolves(snapshots) ==
  /\ UNCHANGED <<botVars, rollVars, pageVars>>
  /\ inFlight # NoFlight
  /\ \E updatedState \in snapshots : InstallPanel(Resolved(P, updatedState))

\* actionExecutor rejects
SubmitRejects ==
  /\ UNCHANGED <<botVars, rollVars, pageVars>>
  /\ inFlight # NoFlight
  /\ InstallPanel(Failed(P))

\* the effect that clamps the offer runs after a render with new availableCounts
ClampOffer ==
  /\ UNCHANGED <<botVars, rollVars, pageVars>>
  /\ clampPending
  /\ InstallPanel(ClampEffect(P))

\* between the panel's submissions another writer of the store (the bot loop of
\* GameScreen) publishes a snapshot in which the viewer's hand differs
HoldingsChange ==
  /\ UNCHANGED <<botVars, rollVars, pageVars>>
  /\ inFlight = NoFlight
  /\ \E hand \in Counts \ {availableCounts} :
       InstallPanel([P EXCEPT !.gs = [tradeGameState EXCEPT !.IN_HAND = hand],
                              !.clampPending = TRUE])

\* the viewer answers, confirms and withdraws
TradeNext ==
  \/ AcceptTrade
  \/ RejectTrade
  \/ \E target \in TradeColors : ConfirmTrade(target)
  \/ WithdrawTrade
  \/ SubmitResolves(DecisionSnapshots)
  \/ SubmitRejects
  \/ ClampOffer

\* the viewer edits the draft and proposes
DraftNext ==
  \/ \E i \in ResourceIndex : IncrementOffer(i)
  \/ \E i \in ResourceIndex : DecrementOffer(i)
  \/ \E i \in ResourceIndex : IncrementRequest(i)
  \/ \E i \in ResourceIndex : DecrementRequest(i)
  \/ ResetForm
  \/ handleProposeTrade
  \/ HoldingsChange
  \/ SubmitResolves(ProposalSnapshots)
  \/ SubmitRejects
  \/ ClampOffer

\* =========================================================== RecordsPage
RecordIds == {"g1", "g2"}

\* mergeRecords, by id: every remote and every local record is listed once
mergeRecords(remote, local) == remote \cup local

\* the answers deleteGame can get for a session: success when the backend
\* holds it, not-found when it does not, and a failure of another kind
DeleteStatuses(id) ==
  (IF id \in recordsBackend THEN {200} ELSE {404}) \cup {500}

DeleteIsSuccess_Always(status) == TRUE

DeleteIsSuccess_Only200(status) == status = 200

\* the inner try / catch of handleDeleteSelectedGame: an answer other than
\* 404 is rethrown to the outer catch, 404 falls through like a success
DeleteIsSuccess(status) == status = 200 \/ status = 404

RecordsMount(params) ==
  /\ games = {}
  /\ paramsGameId = params
  /\ selectedGameId = params
  /\ recordGameState = NULL
  /\ recordsError = NULL
  /\ deletePending = FALSE
  /\ deletePc = "idle"
  /\ deleteTarget = NULL
  /\ deleteStatus = 0
  /\ deleted = {}
  /\ listPc = "idle"
  /\ listClosure = [params |-> NULL, selected |-> NULL]
  /\ detailFlights = {}

\* the page is not mounted
RecordsIdle ==
  /\ recordsBackend = {}
  /\ localRecords = {}
  /\ RecordsMount(NULL)
  /\ listEffectPending = FALSE
  /\ detailEffectPending = FALSE

\* the page after its first render, for any backend and any local storage
RecordsInit ==
  /\ recordsBackend \in SUBSET RecordIds
  /\ localRecords \in SUBSET RecordIds
  /\ \E params \in RecordIds \cup {NULL} : RecordsMount(params)
  /\ listEffectPending = TRUE
  /\ detailEffectPending = TRUE

\* setSelectedGameId(id) together with the route change that goes with it:
\* loadGames and fetchRecord get new dependencies when the values change
Select(id, params) ==
  /\ selectedGameId' = id
  /\ paramsGameId' = params
  /\ listEffectPending' =
       (listEffectPending \/ id # selectedGameId \/ params # paramsGameId)
  /\ detailEffectPending' = (detailEffectPending \/ id # selectedGameId)

\* the delete button, enabled unless nothing is selected or a delete is
\* pending, with window.confirm answered yes
HandleDeleteSelectedGame ==
  /\ selectedGameId # NULL
  /\ ~deletePending
  /\ deletePc = "idle"
  /\ deletePending' = TRUE
  /\ recordsError' = NULL
  /\ deletePc' = "deleting"
  /\ deleteTarget' = selectedGameId
  /\ UNCHANGED <<recordsBackend, localRecords, games, paramsGameId, selectedGameId,
                 recordGameState, deleteStatus, deleted, listEffectPending, listPc,
                 listClosure, detailEffectPending, detailFlights>>
  /\ UNCHANGED <<botVars, rollVars, tradeVars, statsVars, flightVars, storeVars>>

\* deleteGame is answered; on success or not-found the handler goes on to
\* loadGames(), which runs up to its await of listGames
DeleteAnswered ==
  /\ deletePc = "deleting"
  /\ \E status \in DeleteStatuses(deleteTarget) :
       /\ deleteStatus' = status
       /\ recordsBackend' =
            IF status = 200 THEN recordsBackend \ {deleteTarget} ELSE recordsBackend
       /\ deleted' = IF status = 200 THEN deleted \cup {deleteTarget} ELSE deleted
       /\ IF DeleteIsSuccess(status)
          THEN /\ localRecords' = localRecords \ {deleteTarget}
               /\ Select(NULL, NULL)
               /\ recordGameState' = NULL
               /\ recordsError' = NULL
               /\ deletePc' = "listing"
               /\ UNCHANGED deletePending
          ELSE /\ recordsError' = "delete"
               /\ deletePending' = FALSE
               /\ deletePc' = "idle"
               /\ UNCHANGED <<localRecords, paramsGameId, selectedGameId,
                              recordGameState, listEffectPending,
                              detailEffectPending>>
  /\ UNCHANGED <<games, deleteTarget, listPc, listClosure, detailFlights>>
  /\ UNCHANGED <<botVars, rollVars, tradeVars, statsVars, flightVars, storeVars>>

\* listGames of the handler's loadGames is answered; the loadGames the handler
\* closed over still sees the deleted id as selected and selects nothing
DeleteListAnswered ==
  /\ deletePc = "listing"
  /\ \E ok \in BOOLEAN :
       /\ games' = mergeRecords(IF ok THEN recordsBackend ELSE {}, localRecords)
       /\ recordsError' = IF ok THEN recordsError ELSE "list"
  /\ deletePending' = FALSE
  /\ deletePc' = "idle"
  /\ UNCHANGED <<recordsBackend, localRecords, paramsGameId, selectedGameId,
                 recordGameState, deleteTarget, deleteStatus, deleted,
                 listEffectPending, listPc, listClosure, detailEffectPending,
                 detailFlights>>
  /\ UNCHANGED <<botVars, rollVars, tradeVars, statsVars, flightVars, storeVars>>

\* useEffect(() => { loadGames() }, [loadGames]), up to the await of listGames
ListEffectRuns ==
  /\ listEffectPending
  /\ listPc = "idle"
  /\ listEffectPending' = FALSE
  /\ recordsError' = NULL
  /\ listPc' = "listing"
  /\ listClosure' = [params |-> paramsGameId, selected |-> selectedGameId]
  /\ UNCHANGED <<recordsBackend, localRecords, games, paramsGameId, selectedGameId,
                 recordGameState, deletePending, deletePc, deleteTarget,
                 deleteStatus, deleted, detailEffectPending, detailFlights>>
  /\ UNCHANGED <<botVars, rollVars, tradeVars, statsVars, flightVars, storeVars>>

\* the rest of the effect's loadGames: with no route parameter and nothing
\* selected when it was created, it selects the first listed record
ListAnswered ==
  /\ listPc = "listing"
  /\ listPc' = "idle"
  /\ \E ok \in BOOLEAN :
       LET combined == mergeRecords(IF ok THEN recordsBackend ELSE {}, localRecords)
       IN /\ games' = combined
          /\ recordsError' = IF ok THEN recordsError ELSE "list"
          /\ IF listClosure.params = NULL /\ combined # {}
                /\ listClosure.selected = NULL
             THEN \E first \in combined : Select(first, first)
             ELSE UNCHANGED <<paramsGameId, selectedGameId, listEffectPending,
                              detailEffectPending>>
  /\ UNCHANGED <<recordsBackend, localRecords, recordGameState, deletePending,
                 deletePc, deleteTarget, deleteStatus, deleted, listClosure,
                 detailFlights>>
  /\ UNCHANGED <<botVars, rollVars, tradeVars, statsVars, flightVars, storeVars>>

\* the fetchRecord effect, up to its await of getState(selectedGameId, "latest")
DetailEffectRuns ==
  /\ detailEffectPending
  /\ detailEffectPending' = FALSE
  /\ IF selectedGameId = NULL
     THEN /\ recordGameState' = NULL
          /\ UNCHANGED <<recordsError, detailFlights>>
     ELSE /\ recordsError' = NULL
          /\ detailFlights' = detailFlights \cup {selectedGameId}
          /\ UNCHANGED recordGameState
  /\ UNCHANGED <<recordsBackend, localRecords, games, paramsGameId, selectedGameId,
                 deletePending, deletePc, deleteTarget, deleteStatus, deleted,
                 listEffectPending, listPc, listClosure>>
  /\ UNCHANGED <<botVars, rollVars, tradeVars, statsVars, flightVars, storeVars>>

\* getState is answered: with the snapshot when the backend holds the session
\* and the request gets through, with a failure otherwise
DetailAnswered(id) ==
  /\ id \in detailFlights
  /\ detailFlights' = detailFlights \ {id}
  /\ \E ok \in (IF id \in recordsBackend THEN BOOLEAN ELSE {FALSE}) :
       IF ok
       THEN recordGameState' = id /\ UNCHANGED recordsError
       ELSE recordGameState' = NULL /\ recordsError' = "detail"
  /\ UNCHANGED <<recordsBackend, localRecords, games, paramsGameId, selectedGameId,
                 deletePending, deletePc, deleteTarget, deleteStatus, deleted,
                 listEffectPending, listPc, listClosure, detailEffectPending>>
  /\ UNCHANGED <<botVars, rollVars, tradeVars, statsVars, flightVars, storeVars>>

HandleSelectGame(id) ==
  /\ id \in games
  /\ Select(id, id)
  /\ UNCHANGED <<recordsBackend, localRecords, games, recordGameState, recordsError,
                 deletePending, deletePc, deleteTarget, deleteStatus, deleted,
                 listPc, listClosure, detailFlights>>
  /\ UNCHANGED <<botVars, rollVars, tradeVars, statsVars, flightVars, storeVars>>

\* the address /records/:gameId is opened; the effect on paramsGameId selects it
RecordsRoute(id) ==
  /\ id # paramsGameId
  /\ Select(id, id)
  /\ UNCHANGED <<recordsBackend, localRecords, games, recordGameState, recordsError,
                 deletePending, deletePc, deleteTarget, deleteStatus, deleted,
                 listPc, listClosure, detailFlights>>
  /\ UNCHANGED <<botVars, rollVars, tradeVars, statsVars, flightVars, storeVars>>

RecordsNext ==
  \/ HandleDeleteSelectedGame
  \/ DeleteAnswered
  \/ DeleteListAnswered
  \/ ListEffectRuns
  \/ ListAnswered
  \/ DetailEffectRuns
  \/ \E id \in RecordIds : DetailAnswered(id)
  \/ \E id \in RecordIds : HandleSelectGame(id)
  \/ \E id \in RecordIds : RecordsRoute(id)

\* ================================================= negotiation statistics
StatColors == {"RED", "BLUE", "WHITE"}
TurnOrder == <<"RED", "BLUE", "WHITE">>
BaseTimeMs == 1000
\* the time between record i - 1 and record i of a session that records it
StatDelta(i) == 100 * i
AdviceRequesters == {"RED", "BLUE"}
NoOffer == [offerer_color |-> NULL, accepted |-> {}, rejected |-> {}]

record(color, type) == [color |-> color, type |-> type]

\* n / d, with 0 (not 0/0) when the denominator is 0
Rate_NoZeroGuard(n, d) == [num |-> n, den |-> d]

Rate(n, d) == IF d = 0 THEN [num |-> 0, den |-> 1] ELSE [num |-> n, den |-> d]

EmptyStats ==
  [playerColor |-> NULL, offerCount |-> 0, successCount |-> 0,
   successRate |-> Rate(0, 0), timestampsAvailable |-> FALSE,
   totalDurationMs |-> 0, averageDurationMs |-> Rate(0, 0),
   adviceRequestCount |-> 0, adviceLedToOfferCount |-> 0,
   adviceFollowRate |-> Rate(0, 0)]

\* a timestamp is present for every action record
timestampsAvailable(gs) ==
  Len(gs.action_records) > 0 /\ Len(gs.action_timestamps) = Len(gs.action_records)

Elapsed(gs, from, to) ==
  IF timestampsAvailable(gs)
    THEN gs.action_timestamps[to] - gs.action_timestamps[from]
    ELSE 0

\* what the scan carries from one record to the next
ScanStart ==
  [offerCount |-> 0, successCount |-> 0, totalDurationMs |-> 0,
   adviceRequestCount |-> 0, adviceLedToOfferCount |-> 0,
   openOffer |-> 0, rejecters |-> {}, pendingAdvice |-> 0]

ClosesOffer_FirstReject(gs, actor, rejecters) == rejecters # {}

\* the rejection that closes the actor's offer: every counterparty rejected
ClosesOffer(gs, actor, rejecters) == rejecters = gs.colors \ {actor}

ClearsAdvice_Never(rec) == FALSE

\* a turn-ending action: advice asked for before it no longer leads to an offer
ClearsAdvice(rec) == rec.type = "END_TURN"

\* the advice events of the actor asked for at state index i
AdviceAt(events, actor, i) ==
  { k \in 1..Len(events) :
      events[k].state_index = i /\ events[k].requester_color = actor }

StepAdvice(acc, events, actor, i) ==
  LET n == Cardinality(AdviceAt(events, actor, i))
  IN [acc EXCEPT !.adviceRequestCount = @ + n, !.pendingAdvice = @ + n]

\* the record at position i (from 1) of the log
StepRecord(acc, gs, actor, i) ==
  LET rec == gs.action_records[i]
      closed == [acc EXCEPT !.totalDurationMs = @ + Elapsed(gs, acc.openOffer, i),
                            !.openOffer = 0, !.rejecters = {}]
  IN CASE rec.type = "OFFER_TRADE" /\ rec.color = actor ->
            [acc EXCEPT !.offerCount = @ + 1,
                        !.adviceLedToOfferCount = @ + acc.pendingAdvice,
                        !.pendingAdvice = 0,
                        !.openOffer = i, !.rejecters = {}]
       [] rec.type = "CONFIRM_TRADE" /\ rec.color = actor ->
            IF acc.openOffer # 0
              THEN [closed EXCEPT !.successCount = @ + 1]
              ELSE [acc EXCEPT !.successCount = @ + 1]
       [] rec.type = "REJECT_TRADE" /\ acc.openOffer # 0 ->
            IF ClosesOffer(gs, actor, acc.rejecters \cup {rec.color})
              THEN closed
              ELSE [acc EXCEPT !.rejecters = @ \cup {rec.color}]
       [] ClearsAdvice(rec) -> [acc EXCEPT !.pendingAdvice = 0]
       [] OTHER -> acc

\* one pass over the advice events and the action records merged by state
\* index: the events of index i come before the record of index i
RECURSIVE Scan(_, _, _, _, _)
Scan(acc, gs, events, actor, i) ==
  LET asked == StepAdvice(acc, events, actor, i)
  IN IF i >= Len(gs.action_records)
       THEN asked
       ELSE Scan(StepRecord(asked, gs, actor, i + 1), gs, events, actor, i + 1)

Summarize(gs, events, actor) ==
  LET acc == Scan(ScanStart, gs, events, actor, 0)
  IN [playerColor |-> actor,
      offerCount |-> acc.offerCount,
      successCount |-> acc.successCount,
      successRate |-> Rate(acc.successCount, acc.offerCount),
      timestampsAvailable |-> timestampsAvailable(gs),
      totalDurationMs |-> acc.totalDurationMs,
      averageDurationMs |-> Rate(acc.totalDurationMs, acc.offerCount),
      adviceRequestCount |-> acc.adviceRequestCount,
      adviceLedToOfferCount |-> acc.adviceLedToOfferCount,
      adviceFollowRate |-> Rate(acc.adviceLedToOfferCount, acc.adviceRequestCount)]

calculateNegotiationStats_AnyActor(gs, events) ==
  Summarize(gs, events, gs.current_color)

calculateNegotiationStats(gs, events) ==
  IF getHumanColor(gs) = NULL
    THEN EmptyStats
    ELSE Summarize(gs, events, getHumanColor(gs))

StatsSnapshot(bots, cur, records, timestamps, trade) ==
  [colors |-> StatColors, bot_colors |-> bots, current_color |-> cur,
   action_records |-> records, action_timestamps |-> timestamps,
   state_index |-> Len(records), trade |-> trade]

\* nothing computes statistics
StatsIdle ==
  /\ statsGameState = StatsSnapshot(StatColors, "RED", <<>>, <<>>, NoOffer)
  /\ adviceEvents = <<>>
  /\ stats = EmptyStats

\* a new session in which RED is human or everybody is a bot
StatsInit ==
  /\ \E bots \in {{"BLUE", "WHITE"}, StatColors} :
       statsGameState = StatsSnapshot(bots, "RED", <<>>, <<>>, NoOffer)
  /\ adviceEvents = <<>>
  /\ stats = calculateNegotiationStats(statsGameState, adviceEvents)

NextColor(c) ==
  LET i == CHOOSE k \in 1..Len(TurnOrder) : TurnOrder[k] = c
  IN TurnOrder[(i % Len(TurnOrder)) + 1]

\* whether the backend puts a time on the next record: with the first record
\* it starts to record timestamps or not, and afterwards it keeps to that
Stamps(gs) ==
  IF Len(gs.action_records) = 0 THEN BOOLEAN
  ELSE {timestampsAvailable(gs)}

\* the snapshot after the backend appended rec: the log grows by one record
\* and, when timestamps are recorded, by a timestamp later than the last
Appended(gs, rec, stamped, cur, trade) ==
  LET ts == gs.action_timestamps
      delta == StatDelta(Len(gs.action_records) + 1)
      grown == IF ~stamped THEN ts
               ELSE IF Len(ts) = 0 THEN <<BaseTimeMs + delta>>
               ELSE Append(ts, ts[Len(ts)] + delta)
  IN StatsSnapshot(gs.bot_colors, cur, Append(gs.action_records, rec), grown, trade)

\* the component recomputes the statistics from what it is given
Recompute(gs, events) ==
  /\ statsGameState' = gs
  /\ adviceEvents' = events
  /\ stats' = calculateNegotiationStats(gs, events)
  /\ UNCHANGED <<botVars, rollVars, tradeVars, recordsVars, flightVars, storeVars>>

StatsOffer ==
  /\ Len(statsGameState.action_records) < MaxStatLen
  /\ statsGameState.trade = NoOffer
  /\ \E stamped \in Stamps(statsGameState) :
       LET cur == statsGameState.current_color
       IN Recompute(Appended(statsGameState, record(cur, "OFFER_TRADE"), stamped, cur,
                             [offerer_color |-> cur, accepted |-> {}, rejected |-> {}]),
                    adviceEvents)

StatsRespond(c, accept) ==
  /\ Len(statsGameState.action_records) < MaxStatLen
  /\ statsGameState.trade # NoOffer
  /\ c # statsGameState.trade.offerer_color
  /\ c \notin statsGameState.trade.accepted \cup statsGameState.trade.rejected
  /\ \E stamped \in Stamps(statsGameState) :
       LET t == statsGameState.trade
           answered == IF accept THEN [t EXCEPT !.accepted = @ \cup {c}]
                                 ELSE [t EXCEPT !.rejected = @ \cup {c}]
           closed == answered.rejected = StatColors \ {t.offerer_color}
       IN Recompute(Appended(statsGameState,
                             record(c, IF accept THEN "ACCEPT_TRADE" ELSE "REJECT_TRADE"),
                             stamped, statsGameState.current_color,
                             IF closed THEN NoOffer ELSE answered),
                    adviceEvents)

StatsConfirm ==
  /\ Len(statsGameState.action_records) < MaxStatLen
  /\ statsGameState.trade # NoOffer
  /\ statsGameState.trade.accepted # {}
  /\ \E stamped \in Stamps(statsGameState) :
       Recompute(Appended(statsGameState,
                          record(statsGameState.trade.offerer_color, "CONFIRM_TRADE"),
                          stamped, statsGameState.current_color, NoOffer),
                 adviceEvents)

StatsEndTurn ==
  /\ Len(statsGameState.action_records) < MaxStatLen
  /\ statsGameState.trade = NoOffer
  /\ \E stamped \in Stamps(statsGameState) :
       LET cur == statsGameState.current_color
       IN Recompute(Appended(statsGameState, record(cur, "END_TURN"), stamped,
                             NextColor(cur), NoOffer),
                    adviceEvents)

\* an advice request is logged with the state index of the moment
RequestAdvice(c) ==
  /\ Len(adviceEvents) < MaxAdvice
  /\ Recompute(statsGameState,
               Append(adviceEvents,
                      [state_index |-> statsGameState.state_index,
                       requester_color |-> c]))

StatsNext ==
  \/ StatsOffer
  \/ \E c \in StatColors, accept \in BOOLEAN : StatsRespond(c, accept)
  \/ StatsConfirm
  \/ StatsEndTurn
  \/ \E c \in AdviceRequesters : RequestAdvice(c)

\* ============================== GameScreen guarded by botActionInFlight
\* the mutable state of the component and of its environment, as one record
F ==
  [gs |-> flightGameState, inFlight |-> botActionInFlight, think |-> flightThinking,
   ref |-> flightTimeoutRef, pc |-> flightPc, closure |-> flightClosure,
   result |-> flightResult, backend |-> flightBackend, loading |-> flightLoading,
   dirty |-> flightEffectPending, unmounted |-> flightUnmounted, posts |-> nPosts,
   rejected |-> rejectedHere]

InstallFlight(f) ==
  /\ flightGameState' = f.gs
  /\ botActionInFlight' = f.inFlight
  /\ flightThinking' = f.think
  /\ flightTimeoutRef' = f.ref
  /\ flightPc' = f.pc
  /\ flightClosure' = f.closure
  /\ flightResult' = f.result
  /\ flightBackend' = f.backend
  /\ flightLoading' = f.loading
  /\ flightEffectPending' = f.dirty
  /\ flightUnmounted' = f.unmounted
  /\ nPosts' = f.posts
  /\ rejectedHere' = f.rejected
  /\ UNCHANGED <<botVars, rollVars, tradeVars, recordsVars, statsVars, storeVars>>

\* dispatch({ type: SET_GAME_STATE, data }): the store holds another snapshot
\* and the effects that depend on state.gameState are due
StoreSnapshot(f, data) ==
  [f EXCEPT !.gs = data, !.dirty = TRUE,
            !.rejected = IF data = f.gs THEN @ ELSE FALSE]

\* setBotActionInFlight(false) changes a dependency of the bot effect
finishAction(f) ==
  IF ~f.unmounted
    THEN [f EXCEPT !.think = IF ~f.closure.is_initial_build_phase THEN FALSE ELSE @,
                   !.inFlight = FALSE,
                   !.dirty = (@ \/ f.inFlight),
                   !.pc = "idle"]
    ELSE [f EXCEPT !.pc = "idle"]

\* schedule(BOT_ACTION_DELAY, finishAction, { skipIfInitialPlacement: true })
SchedulePause(f) ==
  IF f.closure.is_initial_build_phase \/ BOT_ACTION_DELAY <= 0
    THEN finishAction(f)
    ELSE [f EXCEPT !.ref = "finish", !.pc = "pausing"]

applyResultWithPause(f, data) ==
  IF f.unmounted
    THEN finishAction(f)
    ELSE SchedulePause(StoreSnapshot(f, data))

\* schedule(delay, () => applyResultWithPause(gameState), ...) with
\* delay = max(0, ROBOT_THINKING_TIME - elapsed)
ScheduleApply(f, data, elapsed) ==
  LET delay == Max(0, ROBOT_THINKING_TIME - elapsed)
  IN IF f.closure.is_initial_build_phase \/ delay <= 0
       THEN applyResultWithPause(f, data)
       ELSE [f EXCEPT !.ref = "apply", !.result = data, !.pc = "thinking"]

\* the body of the bot effect up to the await in executeBotAction
FlightEffect(f) ==
  LET f0 == [f EXCEPT !.dirty = FALSE]
  IN IF f0.gs = NoState \/ ~isBotTurn(f0.gs) \/ f0.inFlight
       THEN f0
       ELSE [f0 EXCEPT !.inFlight = TRUE,
                       !.dirty = TRUE,
                       !.think = IF ~f0.gs.is_initial_build_phase THEN TRUE ELSE @,
                       !.closure = f0.gs,
                       !.pc = "posting",
                       !.posts = @ + 1]

FlightMount(b) ==
  /\ flightGameState = NoState
  /\ botActionInFlight = FALSE
  /\ flightThinking = FALSE
  /\ flightTimeoutRef = NULL
  /\ flightPc = "idle"
  /\ flightClosure = NoState
  /\ flightResult = NoState
  /\ flightBackend = b
  /\ flightUnmounted = FALSE
  /\ nPosts = 0
  /\ rejectedHere = FALSE

\* this GameScreen is not mounted
FlightIdle ==
  /\ FlightMount(NoState)
  /\ flightLoading = FALSE
  /\ flightEffectPending = FALSE

\* after the first render: the load effect has asked for the snapshot
FlightInit ==
  /\ \E b \in InitSnapshots : FlightMount(b)
  /\ flightLoading = TRUE
  /\ flightEffectPending = TRUE

\* the times a postAction may take, below and above ROBOT_THINKING_TIME
Elapsed_ms == {100, 3000}

FlightEffectRuns ==
  /\ flightEffectPending
  /\ ~flightUnmounted
  /\ nPosts < MaxPosts
  /\ InstallFlight(FlightEffect(F))

FlightLoadResolves ==
  /\ flightLoading
  /\ InstallFlight(StoreSnapshot([F EXCEPT !.loading = FALSE], flightBackend))

FlightPostResolves ==
  /\ flightPc = "posting"
  /\ flightBackend.winning_color = NULL
  /\ flightBackend.state_index < MaxIndex
  /\ \E data \in NextSnapshots(flightBackend), elapsed \in Elapsed_ms :
       InstallFlight(IF flightUnmounted
                       THEN finishAction([F EXCEPT !.backend = data])
                       ELSE ScheduleApply([F EXCEPT !.backend = data], data, elapsed))

FlightPostRejects ==
  /\ flightPc = "posting"
  /\ InstallFlight([finishAction(F) EXCEPT !.rejected = TRUE])

\* the timeout set by schedule expires
FlightTimerFires ==
  /\ flightTimeoutRef # NULL
  /\ LET f == [F EXCEPT !.ref = NULL]
     IN InstallFlight(IF flightTimeoutRef = "apply"
                        THEN applyResultWithPause(f, f.result)
                        ELSE finishAction(f))

\* the unmount cleanup
FlightUnmount ==
  /\ ~flightUnmounted
  /\ InstallFlight([F EXCEPT !.unmounted = TRUE, !.ref = NULL])

\* the human player's action is answered and its snapshot is stored
FlightHumanActs ==
  /\ ~flightUnmounted
  /\ flightGameState = flightBackend
  /\ ~isBotTurn(flightGameState)
  /\ flightBackend.winning_color = NULL
  /\ flightBackend.state_index < MaxIndex
  /\ \E data \in NextSnapshots(flightBackend) :
       InstallFlight(StoreSnapshot([F EXCEPT !.backend = data], data))

FlightNext ==
  \/ FlightEffectRuns
  \/ FlightLoadResolves
  \/ FlightPostResolves
  \/ FlightPostRejects
  \/ FlightTimerFires
  \/ FlightUnmount
  \/ FlightHumanActs

\* ===================================================== local record list
\* game_id values of the sessions whose records are stored: one more than
\* the list may hold
StoreIds == { "s" \o ToString(i) : i \in 1..(MAX_RECORDS + 1) }
StoreIndexes == {0, 1}          \* gameState.state_index of the snapshot written
Clock == 1..MaxClock            \* Date.now(), the wall clock of the browser
NoUpsert == [game_id |-> NULL, updated_at |-> 0, state_index |-> 0]

\* one step of Array.prototype.sort((a, b) => b.updated_at - a.updated_at),
\* which is stable: x, which came before every element of sorted, stays before
\* those it ties with
RECURSIVE InsertDesc(_, _)
InsertDesc(x, sorted) ==
  IF sorted = <<>> THEN <<x>>
  ELSE IF x.updated_at >= Head(sorted).updated_at THEN <<x>> \o sorted
  ELSE <<Head(sorted)>> \o InsertDesc(x, Tail(sorted))

RECURSIVE SortDesc(_)
SortDesc(records) ==
  IF records = <<>> THEN <<>>
  ELSE InsertDesc(Head(records), SortDesc(Tail(records)))

\* the list upsertLocalRecord persists; winning_color, current_color and
\* player_colors are copied from the snapshot like state_index
Upsert(current, id, state_index, now) ==
  LET withoutCurrent == SelectSeq(current, LAMBDA r : r.game_id # id)
      nextRecord == [game_id |-> id, updated_at |-> now,
                     state_index |-> state_index]
      sorted == SortDesc(<<nextRecord>> \o withoutCurrent)
  IN  SubSeq(sorted, 1, Min(Len(sorted), MAX_RECORDS))

\* no record was ever written: getItem returns null and safeParse gives []
StoreIdle ==
  /\ storage = <<>>
  /\ lastUpsert = NoUpsert

\* GameScreen's effect calls upsertLocalRecord(gameId, state.gameState)
upsertLocalRecord(id, state_index, now) ==
  /\ storage' = Upsert(storage, id, state_index, now)
  /\ lastUpsert' = [game_id |-> id, updated_at |-> now,
                    state_index |-> state_index]
  /\ UNCHANGED <<botVars, rollVars, tradeVars, recordsVars, statsVars, flightVars>>

StoreNext ==
  \/ \E id \in StoreIds, state_index \in StoreIndexes, now \in Clock :
       upsertLocalRecord(id, state_index, now)

\* ======================================================== specifications
PagesIdle == RecordsIdle /\ StatsIdle /\ FlightIdle /\ StoreIdle

Init == BotInit /\ RollInit /\ TradeIdle /\ PagesIdle

\* the GameScreen bot effect and its environment
Spec == Init /\ [][Next]_vars

RollSpecInit ==
  /\ BotInit
  /\ backend = Snapshot(0, "RED", NULL, FALSE,
                        [colors |-> {"RED", "BLUE"}, bot_colors |-> {"BLUE"}])
  /\ RollInit
  /\ TradeIdle
  /\ PagesIdle

\* the useRollDisplay hook
RollSpec == RollSpecInit /\ [][RollSpecNext]_vars

RollTraceInit ==
  /\ BotInit
  /\ backend = Snapshot(0, "RED", NULL, FALSE,
                        [colors |-> {"RED", "BLUE"}, bot_colors |-> {"BLUE"}])
  /\ HookInit
  /\ tracedKey \in Keys
  /\ TradeIdle
  /\ PagesIdle

\* the hook, with the history of one roll identity recorded
RollTraceSpec == RollTraceInit /\ [][RollSpecNext]_vars

TradeSpecInit ==
  /\ BotInit
  /\ backend = Snapshot(0, "RED", NULL, FALSE,
                        [colors |-> {"RED", "BLUE"}, bot_colors |-> {"BLUE"}])
  /\ RollInit
  /\ TradeInit
  /\ PagesIdle

\* the TradePanel component during a negotiation
TradeSpec == TradeSpecInit /\ [][TradeNext]_vars

DraftSpecInit ==
  /\ BotInit
  /\ backend = Snapshot(0, "RED", NULL, FALSE,
                        [colors |-> {"RED", "BLUE"}, bot_colors |-> {"BLUE"}])
  /\ RollInit
  /\ DraftInit
  /\ PagesIdle

\* the TradePanel component while an offer is drafted
DraftSpec == DraftSpecInit /\ [][DraftNext]_vars

RecordsSpecInit ==
  /\ BotInit
  /\ backend = Snapshot(0, "RED", NULL, FALSE,
                        [colors |-> {"RED", "BLUE"}, bot_colors |-> {"BLUE"}])
  /\ RollInit
  /\ TradeIdle
  /\ RecordsInit
  /\ StatsIdle
  /\ FlightIdle
  /\ StoreIdle

\* the RecordsPage component
RecordsSpec == RecordsSpecInit /\ [][RecordsNext]_vars

StatsSpecInit ==
  /\ BotInit
  /\ backend = Snapshot(0, "RED", NULL, FALSE,
                        [colors |-> {"RED", "BLUE"}, bot_colors |-> {"BLUE"}])
  /\ RollInit
  /\ TradeIdle
  /\ RecordsIdle
  /\ StatsInit
  /\ FlightIdle
  /\ StoreIdle

\* calculateNegotiationStats over the logs a session can produce
StatsSpec == StatsSpecInit /\ [][StatsNext]_vars

FlightSpecInit ==
  /\ BotInit
  /\ backend = Snapshot(0, "RED", NULL, FALSE,
                        [colors |-> {"RED", "BLUE"}, bot_colors |-> {"BLUE"}])
  /\ RollInit
  /\ TradeIdle
  /\ RecordsIdle
  /\ StatsIdle
  /\ StoreIdle
  /\ FlightInit

\* the GameScreen whose bot effect is guarded by botActionInFlight
FlightSpec == FlightSpecInit /\ [][FlightNext]_vars

\* a mounted view whose route and props stay put
LiveNext ==
  \/ EffectRun
  \/ \E c \in Cycles : TimerFires(c)
  \/ \E c \in Cycles : PostActionResolves(c)
  \/ \E c \in Cycles : PostActionRejects(c)
  \/ LoadResolves
  \/ HumanSubmits
  \/ HumanResolves

\* every submission is eventually answered, timers expire, effects are flushed
LiveSpec ==
  /\ Init /\ [][LiveNext]_vars
  /\ WF_vars(EffectRun)
  /\ \A c \in Cycles : WF_vars(TimerFires(c))
  /\ \A c \in Cycles : WF_vars(PostActionResolves(c) \/ PostActionRejects(c))

\* ================================================================ claims
Last(seq) == seq[Len(seq)]
Posts(c) == SelectSeq(trace[c], LAMBDA e : e[1] = "post")
Responses(c) == SelectSeq(trace[c], LAMBDA e : e[1] = "resp")
Dispatches(c) == SelectSeq(trace[c], LAMBDA e : e[1] = "disp")
Rejections(c) == SelectSeq(trace[c], LAMBDA e : e[1] = "rej")
Events(c) == SelectSeq(trace[c], LAMBDA e : e[1] # "cancel")
Interrupted(c) == \E i \in 1..Len(trace[c]) : trace[c][i][1] = "cancel"
Unresolved == { c \in Cycles : pc[c] = "awaiting" }

\* C1: at no moment are two bot submissions (postAction(gameId) without an
\* action) of the session unresolved at once, with or without thinking delay.
C1_NoTwoUnresolved == Cardinality(Unresolved) <= 1

\* C2: a response that reaches a cycle whose cancellation flag is already set
\* is never dispatched as SET_GAME_STATE and produces no notification.
C2_StaleResponseDiscarded ==
  [][\A c \in Cycles :
       (cancelled[c] /\ Len(Responses(c))' > Len(Responses(c)))
       => /\ gameState' = gameState
          /\ notifications' = notifications
          /\ depsChanged' = depsChanged
          /\ Len(Dispatches(c))' = Len(Dispatches(c))]_vars

C2_Witness ==
  \E c \in Cycles :
    /\ cancelled[c] /\ pc[c] = "done"
    /\ Len(trace[c]) > 0 /\ Last(trace[c])[1] = "resp"
    /\ gameState.state_index # Last(trace[c])[2]

\* C3: from the moment a cycle sets botProcessingRef until that cycle has
\* ended, no other processBots invocation begins, whatever snapshot arrives.
C3_NoSecondCycle ==
  [][nCycles' > nCycles => \A c \in Cycles : pc[c] \notin {"delay", "awaiting"}]_vars

\* C4: once a cycle's cancellation flag is set, that cycle issues no further
\* postAction, whether it was in the thinking delay or awaiting a response.
C4_NoPostAfterCancel ==
  [][\A c \in Cycles : cancelled[c] => Len(Posts(c))' = Len(Posts(c))]_vars

C4_Witness ==
  /\ \E c \in Cycles : cancelled[c] /\ pc[c] = "delay"
  /\ \E c \in Cycles : cancelled[c] /\ pc[c] = "done" /\ Last(trace[c])[1] = "resp"

\* C5: a bot submission is issued only when the snapshot the cycle last
\* evaluated has current_color in bot_colors and no winning_color, a gameId
\* is set and replayMode is false.
C5_PostOnlyOnBotTurn ==
  [][\A c \in Cycles :
       Len(Posts(c))' > Len(Posts(c))
       => /\ nextState'[c].current_color \in nextState'[c].bot_colors
          /\ nextState'[c].winning_color = NULL
          /\ Last(trace'[c])[2] = nextState'[c].state_index
          /\ gameId' # NoGame
          /\ ~replayMode']_vars

C5_Witness ==
  \E c \in Cycles : Len(Posts(c)) >= 2 /\ pc[c] = "awaiting"

\* C6: when postAction rejects, the cycle ends without retrying: the store's
\* snapshot is unchanged, nothing is notified, the cycle never submits again,
\* and botProcessingRef and isBotThinking are false.
C6_RejectEndsCycle ==
  [][\A c \in Cycles :
       /\ Len(Rejections(c))' > Len(Rejections(c))
            => /\ gameState' = gameState
               /\ notifications' = notifications
               /\ depsChanged' = depsChanged
               /\ pc'[c] = "done"
               /\ ~botProcessingRef'
               /\ ~isBotThinking'
       /\ pc[c] = "done" => pc'[c] = "done" /\ Len(Posts(c))' = Len(Posts(c))]_vars

C6_Witness ==
  \E c \in Cycles :
    /\ Len(trace[c]) > 0 /\ Last(trace[c])[1] = "rej"
    /\ ~cancelled[c] /\ gameState.state_index = nextState[c].state_index

\* C7: within one cycle every dispatched snapshot is the response to the
\* cycle's latest submission, a submission is issued only after the previous
\* response was dispatched, and a response is left undispatched only when it
\* is the cycle's last one and the cycle was cancelled.
C7_DispatchInOrder ==
  \A c \in Cycles :
    LET ev == Events(c) IN
    \A i \in 1..Len(ev) :
      /\ ev[i][1] = "post" =>
           IF i = 1 THEN TRUE
           ELSE ev[i - 1][1] = "disp" /\ ev[i - 1][2] = ev[i][2]
      /\ ev[i][1] \in {"resp", "rej"} => i > 1 /\ ev[i - 1][1] = "post"
      /\ ev[i][1] = "disp" => i > 1 /\ ev[i - 1] = <<"resp", ev[i][2]>>
      /\ ev[i][1] = "resp" =>
           IF i < Len(ev) THEN ev[i + 1][1] = "disp" ELSE cancelled[c]

C7_Witness ==
  \E c \in Cycles :
    LET ev == Events(c) IN
    /\ Len(ev) >= 6
    /\ ev[3][1] = "disp" /\ ev[4][1] = "post" /\ ev[6][1] = "disp"

\* C8: when submissions are answered, the backend hands the turn back and no
\* cycle is cancelled while it runs, a running cycle eventually ends with
\* botProcessingRef false and isBotThinking false, and a cycle that has ended
\* submits nothing more.
C8_CycleTerminates ==
  /\ \A c \in Cycles :
       (pc[c] \in {"delay", "awaiting"})
         ~> \/ \E d \in Cycles : Interrupted(d)
            \/ pc[c] = "done" /\ ~botProcessingRef /\ ~isBotThinking
  /\ [][\A c \in Cycles :
          pc[c] = "done" => pc'[c] = "done" /\ Len(Posts(c))' = Len(Posts(c))]_vars

C8_Witness ==
  \E c \in Cycles :
    /\ pc[c] = "done" /\ ~botProcessingRef /\ ~isBotThinking
    /\ \A d \in Cycles : ~Interrupted(d)
    /\ Len(trace[c]) > 0 /\ Last(trace[c])[1] = "disp"
    /\ gameState.current_color \notin gameState.bot_colors

\* C9: once the hook's effect has run, displayRollKey is null or the identity
\* of a ROLL record of the currently observed log.
C9_DisplayedRollInLog ==
  ~rollEffectPending =>
    \/ displayRollKey = NULL
    \/ /\ rollGameState.present
       /\ \E i \in 1..Len(rollGameState.action_records) :
            /\ rollGameState.action_records[i][1] = "ROLL"
            /\ displayRollKey = RollKey(rollGameState.action_records[i][2], i - 1)
            /\ displayRoll = rollGameState.action_records[i][2]

\* C10: finalizeOverlay promotes the queued roll to displayed and clears the
\* queue; with nothing queued it leaves the displayed roll unchanged, so a
\* second finalize in a row changes nothing.
C10_FinalizePromotes ==
  [][lastOp' = "finalize" =>
       /\ overlayKey' = NULL /\ overlayRoll' = NoRoll
       /\ IF overlayKey # NULL
            THEN displayRollKey' = overlayKey /\ displayRoll' = overlayRoll
            ELSE displayRollKey' = displayRollKey /\ displayRoll' = displayRoll
       /\ lastOp = "finalize" =>
            displayRollKey' = displayRollKey /\ displayRoll' = displayRoll]_vars

C10_Witness ==
  /\ lastOp = "finalize"
  /\ displayRollKey # NULL /\ overlayKey = NULL
  /\ extractLatestRoll(rollGameState).key = displayRollKey
  /\ rollEffectPending

\* C11: when a roll is queued and the effect sees a roll that is neither the
\* displayed nor the queued one, the queued slot is overwritten with that
\* newest roll and the displayed roll stays; finalizeOverlay then displays
\* what is queued; a roll identity that was overwritten in the queue is never
\* promoted to displayed, and no roll identity is promoted twice.
C11_QueueOverwrite ==
  [][/\ (lastOp' = "effect" /\ overlayKey # NULL
          /\ extractLatestRoll(rollGameState).key
               \notin {NULL, displayRollKey, overlayKey})
         => /\ overlayKey' = extractLatestRoll(rollGameState).key
            /\ overlayRoll' = extractLatestRoll(rollGameState).roll
            /\ displayRollKey' = displayRollKey /\ displayRoll' = displayRoll
     /\ (lastOp' = "finalize" /\ overlayKey # NULL)
         => displayRollKey' = overlayKey /\ displayRoll' = overlayRoll
     /\ (lastOp' = "finalize" /\ overlayKey = tracedKey)
         => ~tracedDropped /\ tracedPromotions = 0]_vars

\* C12: when the effect runs on a null snapshot it clears the displayed roll
\* and the queued roll, whatever they held, and they stay cleared for as long
\* as the snapshot is null.
C12_ResetClears ==
  [][/\ (lastOp' = "effect" /\ ~rollGameState.present)
         => /\ displayRoll' = NoRoll /\ displayRollKey' = NULL
            /\ overlayRoll' = NoRoll /\ overlayKey' = NULL
     /\ (lastOp = "effect" /\ ~rollGameState.present /\ ~rollGameState'.present)
         => /\ displayRoll' = NoRoll /\ displayRollKey' = NULL
            /\ overlayRoll' = NoRoll /\ overlayKey' = NULL]_vars

\* the effect has just cleared a roll on a reset (a key it depends on changed)
C12_Witness ==
  /\ lastOp = "effect" /\ ~rollGameState.present
  /\ displayRollKey = NULL /\ overlayKey = NULL
  /\ rollEffectPending

\* C13: whatever the snapshot and the viewer, the panel gives no way to
\* propose (canProposeTrade, canSubmitProposal, the propose button, an
\* OFFER_TRADE in flight) when the viewer's HAS_ROLLED flag is unset, nor when
\* a trade is open whose offerer_color is not the viewer.
C13_NoProposeUnrolledOrForeign ==
  (\/ ~tradeGameState.HAS_ROLLED
   \/ /\ tradeGameState.trade # NoTrade
      /\ tradeGameState.trade.offerer_color # humanColor)
  => /\ ~canProposeTrade /\ ~canSubmitProposal /\ ~ProposeEnabled
     /\ inFlight.type # "OFFER_TRADE"

\* only the roll is missing: the viewer's turn, no trade, no winner, a valid draft
C13_Witness ==
  /\ ~tradeGameState.HAS_ROLLED
  /\ isPlayersTurn /\ ~gameFinished /\ ~tradeActive
  /\ validationError = NULL /\ pendingAction = NULL
  /\ offerTotal > 0 /\ requestTotal > 0

\* C14 as stated: with no open trade, the propose affordance is available if
\* and only if current_color is the viewer, the viewer has rolled and
\* winning_color is null.
C14_ProposeIffTurnRolledNoWinner ==
  tradeGameState.trade = NoTrade =>
    (canProposeTrade <=>
       /\ tradeGameState.current_color = humanColor
       /\ tradeGameState.HAS_ROLLED
       /\ tradeGameState.winning_color = NULL)

\* C14 amended: with no open trade, the propose affordance is available if
\* and only if current_color is the viewer, current_prompt is PLAY_TURN, the
\* viewer has rolled and winning_color is null.
C14_ProposeIffPlayTurn ==
  tradeGameState.trade = NoTrade =>
    (canProposeTrade <=>
       /\ tradeGameState.current_color = humanColor
       /\ tradeGameState.current_prompt = "PLAY_TURN"
       /\ tradeGameState.HAS_ROLLED
       /\ tradeGameState.winning_color = NULL)

\* the viewer is the current actor and has rolled, but must move the robber
C14_Witness ==
  /\ tradeGameState.trade = NoTrade
  /\ tradeGameState.current_color = humanColor
  /\ tradeGameState.current_prompt = "MOVE_ROBBER"
  /\ tradeGameState.HAS_ROLLED /\ tradeGameState.winning_color = NULL
  /\ ~canProposeTrade
  /\ offerTotal > 0 /\ requestTotal > 0 /\ validationError = NULL

\* the draft rules: no negative quantity, no resource on both sides, nothing
\* offered beyond the holdings, something offered and something requested
ValidDraft(o, r, holdings) ==
  /\ \A i \in ResourceIndex :
       /\ o[i] >= 0 /\ r[i] >= 0
       /\ ~(o[i] > 0 /\ r[i] > 0)
       /\ o[i] <= holdings[i]
  /\ Total(o) > 0
  /\ Total(r) > 0

\* C15: the propose button is enabled (canSubmitProposal) only for a draft
\* that satisfies the draft rules, and the payload of an OFFER_TRADE handed to
\* actionExecutor satisfies them against the holdings of the snapshot.
C15_OnlyValidDraftSubmitted ==
  /\ ProposeEnabled => ValidDraft(offer, request, availableCounts)
  /\ canSubmitProposal => ValidDraft(offer, request, availableCounts)
  /\ inFlight.type = "OFFER_TRADE" =>
       ValidDraft(SubSeq(inFlight.payload, 1, Len(RESOURCE_ORDER)),
                  SubSeq(inFlight.payload, Len(RESOURCE_ORDER) + 1,
                         2 * Len(RESOURCE_ORDER)),
                  availableCounts)

\* everything allows a proposal except that the hand no longer covers the offer
C15_Witness ==
  /\ canProposeTrade /\ pendingAction = NULL
  /\ offerTotal > 0 /\ requestTotal > 0
  /\ validationError = "insufficient"
  /\ ~ProposeEnabled

Rejecting ==
  { a \in tradeGameState.trade.acceptees :
      ~a.accepted /\ a.color # tradeGameState.trade.offerer_color }

\* C17: when the acceptees hold a non-accepting entry of a counterparty, every
\* confirm button is disabled and no CONFIRM_TRADE is sent, whoever else
\* accepted, while the one withdraw button stays enabled unless a submission
\* is pending; the offerer's own entry and counterparties without an entry
\* disable nothing.
C17_RejectionSuppressesConfirm ==
  /\ (ConfirmTargets # {} /\ Rejecting # {})
       => /\ ~ConfirmEnabled
          /\ WithdrawButtons = 1
          /\ pendingAction = NULL => WithdrawEnabled
  /\ (ConfirmTargets # {} /\ Rejecting = {} /\ pendingAction = NULL)
       => ConfirmEnabled
  /\ (inFlight.type = "CONFIRM_TRADE") => Rejecting = {}

\* one counterparty accepted and can be confirmed, another one declined
C17_Witness ==
  /\ decidingPartner /\ isTradeOfferer /\ pendingAction = NULL
  /\ Rejecting # {} /\ acceptedColors # {}
  /\ acceptedColors \subseteq ConfirmTargets
  /\ ~ConfirmEnabled /\ WithdrawEnabled

C19_AnswerOnlyWhenAsked ==
  /\ (ResponseShown \/ inFlight.type \in {"ACCEPT_TRADE", "REJECT_TRADE"})
       => /\ ~(tradeActive /\ tradeGameState.trade.offerer_color = humanColor)
          /\ tradeGameState.current_color = humanColor
          /\ tradeGameState.current_prompt = "DECIDE_TRADE"
          /\ \E a \in tradeGameState.current_playable_actions :
               a.type \in {"ACCEPT_TRADE", "REJECT_TRADE"}
  /\ AcceptEnabled =>
       ResponseShown /\ \E a \in tradeGameState.current_playable_actions :
                          a.type = "ACCEPT_TRADE"
  /\ RejectEnabled =>
       ResponseShown /\ \E a \in tradeGameState.current_playable_actions :
                          a.type = "REJECT_TRADE"

\* the offerer is current under DECIDE_TRADE with answers among the legal actions
C19_Witness ==
  /\ tradeActive /\ tradeGameState.trade.offerer_color = humanColor
  /\ awaitingResponse
  /\ acceptAction # NoAction /\ rejectAction # NoAction
  /\ ~ResponseShown /\ pendingAction = NULL

\* C20: the step that ends a submission sets pendingAction to null; when it
\* enqueues the error snackbar (actionExecutor rejected) the draft quantities
\* and the store's snapshot are what they were, and an unedited draft of a
\* failed OFFER_TRADE can be proposed again at once.
C20_FailureKeepsDraft ==
  [][(inFlight # NoFlight /\ inFlight' = NoFlight)
       => /\ pendingAction' = NULL
          /\ snackbar' \in {"state", "error"}
          /\ snackbar' = "error"
               => /\ offer' = offer /\ request' = request
                  /\ tradeGameState' = tradeGameState
                  /\ clampPending' = clampPending
                  /\ (inFlight.type = "OFFER_TRADE"
                      /\ inFlight.payload = offer \o request)
                       => ProposeEnabled']_vars

\* a proposal has just failed and its draft is still there
C20_Witness ==
  /\ snackbar = "error" /\ pendingAction = NULL /\ inFlight = NoFlight
  /\ offerTotal > 0 /\ requestTotal > 0
  /\ ProposeEnabled

\* C21: the snapshot the panel reads from the store is replaced only by the
\* bot orchestrator's dispatch or the load effect, which in this
\* specification is the HoldingsChange step taken while the panel has no
\* submission of its own under way; a step of the panel never replaces it.
C21_OnlyOrchestratorOrLoadReplaces ==
  [][tradeGameState' # tradeGameState => inFlight = NoFlight]_vars

\* C22: the step in which deleteGame is answered with not-found (404) is taken
\* as a success: the local record of the session is removed, the selection
\* and the shown snapshot are cleared, and no error is set, so deleting a
\* session that was deleted before is not an error.
C22_DeleteNotFoundIsSuccess ==
  [][(deletePc = "deleting" /\ deletePc' # "deleting" /\ deleteStatus' = 404)
     => /\ deleteTarget \notin localRecords'
        /\ selectedGameId' = NULL
        /\ recordGameState' = NULL
        /\ recordsError' = NULL
        /\ deletePc' = "listing"]_vars

\* a session the backend deleted earlier was selected again by its address
\* and deleted a second time
C22_Witness ==
  /\ deleteStatus = 404
  /\ deleteTarget \in deleted
  /\ deletePc = "listing"
  /\ deleteTarget \notin localRecords
  /\ selectedGameId = NULL
  /\ recordGameState = NULL
  /\ recordsError = NULL

\* ---- the statistics, said without a scan
IsZero(rate) == rate.num = 0 /\ rate.den # 0
\* rate is the number n / d
IsQuotient(rate, n, d) == rate.den # 0 /\ rate.num * d = n * rate.den
InUnitInterval(rate) == rate.den > 0 /\ 0 <= rate.num /\ rate.num <= rate.den

RecordsOf(gs, color, type) ==
  { i \in 1..Len(gs.action_records) : gs.action_records[i] = record(color, type) }

AdviceOf(events, color) ==
  { k \in 1..Len(events) : events[k].requester_color = color }

\* C23: successRate is successCount / offerCount, and exactly 0 when nothing
\* was offered; adviceFollowRate is adviceLedToOfferCount / adviceRequestCount,
\* and exactly 0 when no advice was asked for; both lie in [0, 1]; offerCount
\* and successCount count the human actor's OFFER_TRADE and CONFIRM_TRADE
\* records and no others.
C23_RatesDefinedAndBounded ==
  /\ IF stats.offerCount = 0
       THEN IsZero(stats.successRate)
       ELSE IsQuotient(stats.successRate, stats.successCount, stats.offerCount)
  /\ IF stats.adviceRequestCount = 0
       THEN IsZero(stats.adviceFollowRate)
       ELSE IsQuotient(stats.adviceFollowRate, stats.adviceLedToOfferCount,
                       stats.adviceRequestCount)
  /\ InUnitInterval(stats.successRate)
  /\ InUnitInterval(stats.adviceFollowRate)
  /\ stats.successCount <= stats.offerCount
  /\ stats.adviceLedToOfferCount <= stats.adviceRequestCount
  /\ stats.playerColor # NULL =>
       /\ stats.offerCount =
            Cardinality(RecordsOf(statsGameState, stats.playerColor, "OFFER_TRADE"))
       /\ stats.successCount =
            Cardinality(RecordsOf(statsGameState, stats.playerColor, "CONFIRM_TRADE"))

\* one of two offers of the human actor was confirmed, somebody else offered
\* nothing that counts, and no advice was asked for
C23_Witness ==
  /\ stats.playerColor = "RED"
  /\ stats.offerCount = 2
  /\ stats.successCount = 1
  /\ stats.successRate = [num |-> 1, den |-> 2]
  /\ stats.adviceRequestCount = 0
  /\ IsZero(stats.adviceFollowRate)

\* the record at j closes the offer the actor made at i: the actor's
\* confirmation, or the rejection by which every counterparty has rejected
Closes(gs, actor, i, j) ==
  /\ j > i
  /\ \/ gs.action_records[j] = record(actor, "CONFIRM_TRADE")
     \/ /\ gs.action_records[j].type = "REJECT_TRADE"
        /\ \A c \in gs.colors \ {actor} :
             \E k \in (i + 1)..j : gs.action_records[k] = record(c, "REJECT_TRADE")

\* timestamp(closing record) - timestamp(offer) of the offer at i, 0 for an
\* offer the log does not close
OfferDuration(gs, actor, i) ==
  LET closers == { j \in 1..Len(gs.action_records) : Closes(gs, actor, i, j) }
  IN IF closers = {} THEN 0
     ELSE LET j == CHOOSE c \in closers : \A d \in closers : c <= d
          IN gs.action_timestamps[j] - gs.action_timestamps[i]

RECURSIVE DurationsUpTo(_, _, _)
DurationsUpTo(gs, actor, n) ==
  IF n = 0 THEN 0
  ELSE DurationsUpTo(gs, actor, n - 1)
       + (IF gs.action_records[n] = record(actor, "OFFER_TRADE")
            THEN OfferDuration(gs, actor, n) ELSE 0)

\* C24: when every record has a timestamp, totalDurationMs is the sum over
\* the human actor's offers of the timestamp of the record that closes the
\* offer (the confirmation, or the last rejection when every counterparty
\* rejects) minus the timestamp of the offer, and averageDurationMs is
\* totalDurationMs / offerCount.
C24_DurationsSumClosedOffers ==
  (timestampsAvailable(statsGameState) /\ stats.playerColor # NULL) =>
    /\ stats.timestampsAvailable
    /\ stats.totalDurationMs =
         DurationsUpTo(statsGameState, stats.playerColor,
                       Len(statsGameState.action_records))
    /\ stats.offerCount > 0 =>
         IsQuotient(stats.averageDurationMs, stats.totalDurationMs, stats.offerCount)

\* a first offer that every counterparty rejected, 500 ms after it was made,
\* and a second offer
C24_Witness ==
  /\ stats.playerColor = "RED"
  /\ stats.timestampsAvailable
  /\ stats.offerCount = 2
  /\ stats.successCount = 0
  /\ stats.totalDurationMs = 500
  /\ stats.averageDurationMs = [num |-> 500, den |-> 2]

\* the advice event k is followed by an offer of its requester before any
\* turn-ending record, scanning from the state index it carries
LedToOffer(gs, events, k) ==
  LET from == events[k].state_index + 1
  IN \E j \in from..Len(gs.action_records) :
       /\ gs.action_records[j] = record(events[k].requester_color, "OFFER_TRADE")
       /\ \A i \in from..(j - 1) : gs.action_records[i].type # "END_TURN"

\* C25: adviceLedToOfferCount counts exactly the advice events of the human
\* actor after which, scanning the records from the event's state index on,
\* an OFFER_TRADE of that actor comes before any turn-ending record; each
\* event is counted once at most, and one followed by no offer is not counted.
C25_AdviceLedToOffer ==
  stats.playerColor # NULL =>
    /\ stats.adviceRequestCount =
         Cardinality(AdviceOf(adviceEvents, stats.playerColor))
    /\ stats.adviceLedToOfferCount =
         Cardinality({ k \in AdviceOf(adviceEvents, stats.playerColor) :
                         LedToOffer(statsGameState, adviceEvents, k) })

\* of two advice requests of the human actor, the one asked before the offer
\* is counted and the one asked after the actor's last offer is not
C25_Witness ==
  /\ stats.playerColor = "RED"
  /\ stats.adviceRequestCount = 2
  /\ stats.adviceLedToOfferCount = 1
  /\ stats.offerCount = 1
  /\ \E k \in 1..Len(adviceEvents) :
       /\ adviceEvents[k].requester_color = "RED"
       /\ adviceEvents[k].state_index = Len(statsGameState.action_records)

\* C26: when every colour of the snapshot is a bot colour, the result has a
\* null playerColor and every count, rate and duration of it is 0, whatever
\* the action log and the advice events hold.
C26_NoHumanAllZero ==
  (\A c \in statsGameState.colors : c \in statsGameState.bot_colors) =>
    /\ stats.playerColor = NULL
    /\ stats.offerCount = 0
    /\ stats.successCount = 0
    /\ IsZero(stats.successRate)
    /\ stats.totalDurationMs = 0
    /\ IsZero(stats.averageDurationMs)
    /\ stats.adviceRequestCount = 0
    /\ stats.adviceLedToOfferCount = 0
    /\ IsZero(stats.adviceFollowRate)

\* a session of bots only with an offer, a confirmation and advice requests
C26_Witness ==
  /\ statsGameState.bot_colors = statsGameState.colors
  /\ RecordsOf(statsGameState, "RED", "OFFER_TRADE") # {}
  /\ RecordsOf(statsGameState, "RED", "CONFIRM_TRADE") # {}
  /\ Len(adviceEvents) = MaxAdvice
  /\ stats.playerColor = NULL

\* C27: in the GameScreen guarded by botActionInFlight, after postAction
\* rejects no bot submission is issued until a different snapshot is stored.
C27_NoResubmitAfterReject ==
  [][nPosts' # nPosts => ~rejectedHere]_vars

\* C28: a step in which a cycle issues a submission is the expiry of the
\* cycle's thinking-delay timer if and only if the snapshot the submission
\* acts on has a human participant and is not in the initial-placement phase;
\* otherwise the submission is issued by the step that reached the loop head.
C28_ThinkingDelayIff ==
  [][\A c \in Cycles :
       Len(Posts(c))' > Len(Posts(c)) =>
         ((pc[c] = "delay") <=>
            (hasHumanPlayer(nextState'[c]) /\ ~nextState'[c].is_initial_build_phase))]_vars

\* the second submission of a cycle, issued after the delay
C28_Witness ==
  \E c \in Cycles :
    /\ pc[c] = "awaiting"
    /\ Len(Posts(c)) = 2
    /\ isBotThinking
    /\ hasHumanPlayer(nextState[c])
    /\ ~nextState[c].is_initial_build_phase

\* ---- the latest roll of a snapshot, said without a scan
\* position (from 1) of the last ROLL record, 0 when there is none
LatestRollAt(gs) ==
  LET rolls == { i \in 1..Len(gs.action_records) : gs.action_records[i][1] = "ROLL" }
  IN IF ~gs.present \/ rolls = {} THEN 0
     ELSE CHOOSE k \in rolls : \A j \in rolls : j <= k

LatestRollValue(gs) ==
  IF LatestRollAt(gs) = 0 THEN NoRoll ELSE gs.action_records[LatestRollAt(gs)][2]

\* the identity of the latest roll: its dice values and its log position
LatestRollIdentity(gs) ==
  IF LatestRollAt(gs) = 0 THEN NULL
  ELSE ToString(LatestRollValue(gs)[1]) \o "-" \o ToString(LatestRollValue(gs)[2])
       \o "-" \o ToString(LatestRollAt(gs) - 1)

\* C29: when a roll is displayed or queued and the effect sees a snapshot whose
\* latest roll identity (dice values and log position) is neither the
\* displayed nor the queued one, the roll becomes the queued roll and the
\* displayed roll stays as it is; this holds too for a roll with the dice
\* values of the displayed one at a later position.
C29_NewIdentityQueued ==
  [][(/\ lastOp' = "effect"
      /\ rollEffectPending
      /\ (displayRollKey # NULL \/ overlayKey # NULL)
      /\ LatestRollIdentity(rollGameState) \notin {NULL, displayRollKey, overlayKey})
     => /\ overlayKey' = LatestRollIdentity(rollGameState)
        /\ overlayRoll' = LatestRollValue(rollGameState)
        /\ displayRollKey' = displayRollKey
        /\ displayRoll' = displayRoll]_vars

\* the queued roll has the dice values of the displayed one and a later position
C29_Witness ==
  /\ lastOp = "effect"
  /\ displayRollKey # NULL
  /\ overlayKey = LatestRollIdentity(rollGameState)
  /\ overlayKey # displayRollKey
  /\ overlayRoll = displayRoll

\* C30: when nothing is displayed and nothing is queued and the effect sees a
\* snapshot whose log holds a roll, the latest roll of the log is adopted as
\* the displayed roll at once and the queue stays empty.
C30_FirstRollAdopted ==
  [][(/\ lastOp' = "effect"
      /\ rollEffectPending
      /\ displayRollKey = NULL /\ overlayKey = NULL
      /\ LatestRollIdentity(rollGameState) # NULL)
     => /\ displayRollKey' = LatestRollIdentity(rollGameState)
        /\ displayRoll' = LatestRollValue(rollGameState)
        /\ overlayKey' = NULL
        /\ overlayRoll' = NoRoll]_vars

\* the later of two rolls of the first observed log is displayed, nothing queued
C30_Witness ==
  /\ lastOp = "effect"
  /\ Len(rollGameState.action_records) = 2
  /\ rollGameState.action_records[1][1] = "ROLL"
  /\ LatestRollAt(rollGameState) = 2
  /\ displayRollKey = LatestRollIdentity(rollGameState)
  /\ displayRoll = LatestRollValue(rollGameState)
  /\ displayRoll # rollGameState.action_records[1][2]
  /\ overlayKey = NULL /\ overlayRoll = NoRoll

\* C31: the draft is reset, offer and request both to all-zero, by the step
\* in which an OFFER_TRADE submission resolves, and by the clamping effect
\* whenever the holdings of the snapshot no longer cover the offered
\* quantities.
C31_DraftResetOnSubmitOrHoldings ==
  [][/\ (inFlight.type = "OFFER_TRADE" /\ inFlight' = NoFlight /\ snackbar' = "state")
         => (offer' = createEmptyCounts /\ request' = createEmptyCounts)
     /\ (/\ clampPending /\ ~clampPending'
         /\ \E i \in ResourceIndex : offer[i] > availableCounts[i])
         => (offer' = createEmptyCounts /\ request' = createEmptyCounts)]_vars

\* C32: the thinking-delay timer of a cycle that is not cancelled is taken
\* away only by its expiry, not by the completion of an earlier, cancelled
\* cycle; so a cycle that waits and is not cancelled eventually leaves the
\* wait and issues its submission.
C32_ReplacementProgresses ==
  /\ [][\A c \in Cycles :
          (c \in timers /\ c \notin timers' /\ ~cancelled'[c])
            => Len(Posts(c))' > Len(Posts(c))]_vars
  /\ \A c \in Cycles :
       (pc[c] = "delay" /\ ~cancelled[c]) ~> (pc[c] # "delay" \/ cancelled[c])

\* C33: the running guard botProcessingRef.current is true whenever a cycle
\* that is not cancelled is between its start and its finally block; the
\* finally block of an earlier, cancelled cycle does not reset it.
C33_GuardHeldByLiveCycle ==
  \A c \in Cycles :
    (pc[c] \in {"delay", "awaiting"} /\ ~cancelled[c]) => botProcessingRef

\* C34: within one live session (gameId unchanged, replayMode false) the
\* state_index of the snapshot held in the store never decreases: a late
\* getState response does not overwrite a newer snapshot.
C34_StoreIndexMonotonic ==
  [][(/\ gameId' = gameId /\ gameId # NoGame
      /\ ~replayMode /\ ~replayMode'
      /\ gameState # NoState /\ gameState' # NoState)
       => gameState'.state_index >= gameState.state_index]_vars

\* C35: the displayed identity and the queued identity are never the same
\* non-null roll identity; a run of the effect that finds the latest roll of
\* the log already displayed queues nothing.
C35_DisplayedNeverQueued ==
  /\ [](displayRollKey # NULL => displayRollKey # overlayKey)
  /\ [][(/\ lastOp' = "effect"
         /\ displayRollKey # NULL
         /\ extractLatestRoll(rollGameState).key = displayRollKey)
          => (overlayKey' = overlayKey /\ displayRollKey' = displayRollKey)]_vars

\* one roll is displayed and a different one is queued, the effect having
\* run on the current log
C35_Witness ==
  /\ lastOp = "effect" /\ ~rollEffectPending
  /\ displayRollKey # NULL /\ overlayKey # NULL
  /\ extractLatestRoll(rollGameState).key = overlayKey

\* the hook under a scheduler that runs every pending effect and calls
\* finalizeOverlay whenever a roll is queued
RollLiveSpec ==
  /\ RollSpecInit /\ [][RollSpecNext]_vars
  /\ WF_vars(RollEffectRuns)
  /\ WF_vars(overlayKey # NULL /\ FinalizeOverlay)

\* C36: once the observed snapshot stops changing, the hook eventually
\* displays the latest roll of that snapshot with nothing queued, and stays so.
C36_ConvergesToLatest ==
  <>[][rollGameState' = rollGameState]_vars
    => <>[](/\ displayRollKey = extractLatestRoll(rollGameState).key
            /\ displayRoll = extractLatestRoll(rollGameState).roll
            /\ overlayKey = NULL)

\* snapshots in which the viewer RED drafts, is asked, or decides
PanelSnapshots ==
  { TradeSnapshot("RED", prompt, NULL, TRUE, hand, trade, playable) :
      prompt \in {"PLAY_TURN", "DECIDE_TRADE", "DECIDE_ACCEPTEES"},
      hand \in {createEmptyCounts, [i \in ResourceIndex |-> MaxCount]},
      trade \in {NoTrade,
                 [offerer_color |-> "BLUE", acceptees |-> {}],
                 [offerer_color |-> "RED",
                  acceptees |-> {[color |-> "BLUE", accepted |-> TRUE]}]},
      playable \in {{},
                    {[type |-> "ACCEPT_TRADE", target |-> NULL],
                     [type |-> "REJECT_TRADE", target |-> NULL]},
                    {[type |-> "CONFIRM_TRADE", target |-> "BLUE"]}} }

\* the whole panel: the viewer drafts, proposes, answers, confirms and
\* withdraws; the backend answers a submission with one of PanelSnapshots
PanelNext ==
  \/ \E i \in ResourceIndex : IncrementOffer(i)
  \/ \E i \in ResourceIndex : DecrementOffer(i)
  \/ \E i \in ResourceIndex : IncrementRequest(i)
  \/ \E i \in ResourceIndex : DecrementRequest(i)
  \/ ResetForm
  \/ handleProposeTrade
  \/ AcceptTrade
  \/ RejectTrade
  \/ \E target \in TradeColors : ConfirmTrade(target)
  \/ WithdrawTrade
  \/ SubmitResolves(PanelSnapshots)
  \/ SubmitRejects
  \/ ClampOffer

PanelSpecInit ==
  /\ BotInit
  /\ backend = Snapshot(0, "RED", NULL, FALSE,
                        [colors |-> {"RED", "BLUE"}, bot_colors |-> {"BLUE"}])
  /\ RollInit
  /\ \E gs \in PanelSnapshots : TradeMount(gs, NULL)
  /\ PagesIdle

PanelSpec == PanelSpecInit /\ [][PanelNext]_vars

\* C37: while a submission of the panel is pending, every affordance that
\* submits an action (propose, accept, reject, confirm, withdraw) is disabled,
\* so the submission in flight is never joined or replaced by another one;
\* pendingAction is non-null exactly while a submission is in flight and is
\* null again once it resolves or fails.
C37_OneSubmissionAtATime ==
  /\ [](pendingAction # NULL =>
          /\ ~ProposeEnabled
          /\ ~AcceptEnabled /\ ~RejectEnabled
          /\ ~ConfirmEnabled
          /\ ~WithdrawEnabled)
  /\ [](pendingAction # NULL <=> inFlight # NoFlight)
  /\ [][inFlight # NoFlight => inFlight' \in {inFlight, NoFlight}]_vars
  /\ [][(inFlight # NoFlight /\ inFlight' = NoFlight) => pendingAction' = NULL]_vars

\* a submission is pending while the deciding block shows its confirm and
\* withdraw buttons
C37_Witness ==
  /\ pendingAction # NULL /\ inFlight # NoFlight
  /\ WithdrawButtons > 0 /\ ConfirmTargets # {}
  /\ ~hasRejectedPlayers

\* C38: the step in which deleteGame fails with an error other than
\* not-found leaves the local records, the selection and the shown snapshot
\* as they were, sets an error message and puts deletePending back to false;
\* deletePending is true for as long as the handler runs, and no delete
\* starts while it is true.
C38_DeleteFailureKeepsRecord ==
  /\ [][(deletePc = "deleting" /\ deletePc' # "deleting"
         /\ deleteStatus' \notin {200, 404})
        => /\ localRecords' = localRecords
           /\ selectedGameId' = selectedGameId
           /\ paramsGameId' = paramsGameId
           /\ recordGameState' = recordGameState
           /\ recordsError' # NULL
           /\ ~deletePending']_vars
  /\ [](deletePc # "idle" => deletePending)
  /\ [][deletePending => (deletePc' = "deleting" => deletePc = "deleting")]_vars

\* deleteGame failed for a selected session that has a local record
C38_Witness ==
  /\ deleteStatus = 500
  /\ deletePc = "idle" /\ ~deletePending
  /\ recordsError = "delete"
  /\ selectedGameId = deleteTarget
  /\ deleteTarget \in localRecords
  /\ recordGameState # NULL

StoreSpecInit ==
  /\ BotInit
  /\ backend = Snapshot(0, "RED", NULL, FALSE,
                        [colors |-> {"RED", "BLUE"}, bot_colors |-> {"BLUE"}])
  /\ RollInit
  /\ TradeIdle
  /\ RecordsIdle
  /\ StatsIdle
  /\ FlightIdle
  /\ StoreIdle

\* the local record list under any sequence of upsertLocalRecord calls
StoreSpec == StoreSpecInit /\ [][StoreNext]_vars

\* C39: after any sequence of upsertLocalRecord calls the stored list holds
\* at most one record per game_id and at most MAX_RECORDS records, is ordered
\* by updated_at descending, and holds the record the most recent call wrote,
\* with that call's state_index.
C39_StoredListInvariant ==
  /\ \A i, j \in DOMAIN storage :
       storage[i].game_id = storage[j].game_id => i = j
  /\ Len(storage) <= MAX_RECORDS
  /\ \A i, j \in DOMAIN storage :
       i < j => storage[i].updated_at >= storage[j].updated_at
  /\ lastUpsert # NoUpsert =>
       \E i \in DOMAIN storage :
         /\ storage[i].game_id = lastUpsert.game_id
         /\ storage[i].state_index = lastUpsert.state_index

====
